---- MODULE Spec2Model ----
(***************************************************************************)
(* A model of the chat-protocol search-and-retrieval engine of GhostBooks   *)
(* (src/app/services/irc.py and src/app/services/dcc.py).                   *)
(*                                                                         *)
(* The module holds several specifications over one set of variables; each *)
(* drives one part of the engine and leaves the variables of the other     *)
(* parts at their initial values:                                          *)
(*   SpecDCC       DCCHandler.download_file, the byte transfer             *)
(*   SpecFallback  IRCSession.download_with_fallback                       *)
(*   SpecRate      the commands of one connected session against the clock *)
(*   SpecConnect   IRCSession.connect of one session, alone, against every *)
(*                 reply the server may give (SpecConnectFair: the same,   *)
(*                 with the connect thread scheduled fairly)               *)
(*   SpecSession   one session object: its connect thread, its listener    *)
(*                 thread, and a caller that holds the object              *)
(*   SpecRegistry  _active_sessions and the module-level functions, with   *)
(*                 the threads of the sessions they make                   *)
(*   SpecStatus    the status dictionary of one session, its updates, and  *)
(*                 the callers that hold what get_status() returned        *)
(*   SpecSmart     IRCSession.smart_search_and_download with the           *)
(*                 download_with_fallback it calls                         *)
(*   SpecMatch     IRCSession._is_title_match on pairs of normalized       *)
(*                 titles                                                  *)
(*   SpecSearch    search_author_level and search_title_level on the       *)
(*                 records parsed from the bots' replies                   *)
(*   SpecSelect    IRCSession._select_best_candidate on lists of           *)
(*                 candidates that differ in their version marker          *)
(*   SpecAddr      DCCHandler._int_to_ip on 32-bit address integers        *)
(*   SpecOffer     DCCHandler.parse_dcc_string on well-formed and          *)
(*                 malformed offer lines                                   *)
(*   SpecParse     SearchResultParser.parse_search_results on lists of     *)
(*                 lines                                                   *)
(*   SpecSessionFair  SpecSession with the listener threads scheduled      *)
(*   SpecZip       IRCSession._extract_zip on the names of an archive      *)
(*   SpecHandlers  one session and two request handlers calling by its id  *)
(*   SpecReconnect one session object whose connect() is called again      *)
(*   SpecCollect   the collection window of IRCSession.search_books        *)
(*   SpecPong      one chunk read and answered by one of the read loops    *)
(***************************************************************************)
EXTENDS Integers, Sequences, FiniteSets, TLC

VARIABLES
    \* ---- DCCHandler.download_file (dcc.py) ----
    dcc,            \* the offer being downloaded: [filename, size]
    dccPc,          \* position in download_file
    received,       \* local variable received
    written,        \* bytes written to the output file so far
    requested,      \* size argument of the latest sock.recv call
    dccRaised,      \* an exception reached the handler's except clause
    dccResult,      \* the dictionary download_file returned
    \* ---- IRCSession.download_with_fallback (irc.py) ----
    candidates,     \* the argument: a list of candidate dictionaries
    mainThread,     \* the call runs on the interpreter's main thread
    fbPc,           \* position in download_with_fallback
    fbTried,        \* the indices of the candidates the loop has taken
    fbOutcomes,     \* how each attempt ended
    fbIssued,       \* the download commands handed to download_file
    fbResult,       \* the dictionary download_with_fallback returned
    \* ---- the rate limiter of one session (irc.py) ----
    rateClock,          \* time.time(), in whole seconds
    last_command_time,  \* IRCSession.last_command_time
    rateCount,          \* commands sent so far (counted up to 2)
    ratePrevSend,       \* when the command before the latest was sent
    rateLastSend,       \* when the latest command was sent
    rateSlept,          \* what _enforce_rate_limit slept before the latest
    \* ---- the sessions, their threads and the registry (irc.py) ----
    clock,              \* int(time.time()), the second session ids are made of
    active_sessions,    \* _active_sessions: session id -> session object
    sessions,           \* the IRCSession objects made so far, by object number
    conn,               \* per object: the thread running connect()
    listener,           \* per object: the threads _start_response_listener started
    opPc,               \* per caller thread: the operation it is in
    sent,               \* what the latest step wrote to a session's socket
    ret,                \* what the latest step returned or raised to a caller
    \* ---- the status dictionary of one session and its observers (irc.py) ----
    statusDict,         \* IRCSession._status; its "errors" entry refers to a list
    lists,              \* the list objects made so far, by reference
    snapshots,          \* the dictionaries get_status() has returned, as held
                        \* by their callers
    \* ---- IRCSession.smart_search_and_download (irc.py) ----
    smartTitle,         \* the title argument
    smartPc,            \* position in smart_search_and_download
    smartSearches,      \* the searches it has run, in order
    smartFound,         \* what its search returned
    smartFallbacks,     \* how many times it has called download_with_fallback
    smartResult,        \* what it returned or raised
    \* ---- IRCSession._is_title_match on two titles (irc.py) ----
    matchTarget,        \* the argument target
    matchCandidate,     \* the argument candidate
    matchPc,            \* "start", or "done" once both calls have returned
    matchForward,       \* _is_title_match(target, candidate)
    matchBackward,      \* _is_title_match(candidate, target)
    \* ---- search_author_level and search_title_level (irc.py) ----
    searchAuthor,       \* the argument author
    searchTitle,        \* the argument title (empty: the author-level search)
    searchMax,          \* the argument max_results
    parsedBooks,        \* what parse_search_results made of the buffered lines
    searchPc,           \* "start", "returned", "reranked"
    searchReturned,     \* the list the search returned
    searchAgain,        \* a second best-per-title pass over that list
    \* ---- IRCSession._select_best_candidate (irc.py) ----
    selCands,           \* the argument candidates
    selType,            \* the argument search_type
    selPc,              \* "start", "done"
    selBest,            \* what the function returned
    \* ---- DCCHandler._int_to_ip (dcc.py) ----
    addrInt,            \* the argument ip_int
    addrPc,             \* "start", "decoded", "again"
    addrText,           \* what _int_to_ip returned
    addrAgain,          \* _int_to_ip of that text encoded back to an integer
    \* ---- DCCHandler.parse_dcc_string (dcc.py) ----
    offerLine,          \* the argument text
    offerPc,            \* "start", "done"
    offerResult,        \* how the call ended: [raised, value]
    \* ---- SearchResultParser.parse_search_results (search_parser.py) ----
    parseLines,         \* the argument text_lines
    parsePc,            \* "start", "done"
    parseOutcome,       \* how the call ended, its value being [results, errors]
    \* ---- IRCSession._extract_zip (irc.py) ----
    zipMembers,         \* zip_file.namelist()
    zipListings,        \* what _parse_text_files_from_zip makes of the text files
    zipBroken,          \* the members whose extraction raises
    zipPc,              \* "start", "done"
    zipReturned,        \* the list _extract_zip returned
    \* ---- the collection window of IRCSession.search_books (irc.py) ----
    colMax,             \* max_results
    colLines,           \* len(self._search_results)
    colElapsed,         \* time.time() - start_time, in seconds
    colPolls,           \* how many times time.sleep(1) has returned
    colPc,              \* "test", "sleep", "parse", "done"
    colReturned,        \* len(results) of the list returned
    \* ---- the answer to PING in the four read loops (irc.py) ----
    pongWhere,          \* the loop that reads the chunk
    pongLines,          \* the lines the server sent in one chunk
    pongPc,             \* "start", "done"
    pongWritten         \* what the loop wrote to the socket for the chunk

dccVars == <<dcc, dccPc, received, written, requested, dccRaised, dccResult>>
fbVars == <<candidates, mainThread, fbPc, fbTried, fbOutcomes, fbIssued, fbResult>>

rateVars == <<rateClock, last_command_time, rateCount, ratePrevSend, rateLastSend, rateSlept>>

sessVars == <<clock, active_sessions, sessions, conn, listener, opPc, sent, ret>>

statusVars == <<statusDict, lists, snapshots>>

smartVars == <<smartTitle, smartPc, smartSearches, smartFound, smartFallbacks, smartResult>>

matchVars == <<matchTarget, matchCandidate, matchPc, matchForward, matchBackward>>

searchVars == <<searchAuthor, searchTitle, searchMax, parsedBooks, searchPc,
                searchReturned, searchAgain>>

selVars ==
  <<
    selCands, selType, selPc, selBest
  >>

addrVars ==
  <<
    addrInt, addrPc, addrText, addrAgain
  >>

offerVars ==
  <<
    offerLine, offerPc, offerResult
  >>

parseVars ==
  <<
    parseLines, parsePc, parseOutcome
  >>

zipVars ==
  <<
    zipMembers, zipListings, zipBroken, zipPc, zipReturned
  >>

colVars ==
  <<
    colMax, colLines, colElapsed, colPolls, colPc, colReturned
  >>

pongVars ==
  <<
    pongWhere, pongLines, pongPc, pongWritten
  >>

vars == <<dccVars, fbVars, rateVars, sessVars, statusVars, smartVars, matchVars,
          searchVars,
    selVars,
    addrVars,
    offerVars,
    parseVars,
    zipVars,
    colVars,
    pongVars>>

\* What the actions of one part leave alone: the variables of the others.
notDcc == <<fbVars, rateVars, sessVars, statusVars, smartVars, matchVars,
    searchVars,
    selVars,
    addrVars,
    offerVars,
    parseVars,
    zipVars,
    colVars,
    pongVars>>
notFb == <<dccVars, rateVars, sessVars, statusVars, smartVars, matchVars,
    searchVars,
    selVars,
    addrVars,
    offerVars,
    parseVars,
    zipVars,
    colVars,
    pongVars>>
notRate == <<dccVars, fbVars, sessVars, statusVars, smartVars, matchVars,
    searchVars,
    selVars,
    addrVars,
    offerVars,
    parseVars,
    zipVars,
    colVars,
    pongVars>>
notSess == <<dccVars, fbVars, rateVars, statusVars, smartVars, matchVars,
    searchVars,
    selVars,
    addrVars,
    offerVars,
    parseVars,
    zipVars,
    colVars,
    pongVars>>
notStatus == <<dccVars, fbVars, rateVars, sessVars, smartVars, matchVars,
    searchVars,
    selVars,
    addrVars,
    offerVars,
    parseVars,
    zipVars,
    colVars,
    pongVars>>
notSmart == <<dccVars, rateVars, sessVars, statusVars, matchVars,
    searchVars,
    selVars,
    addrVars,
    offerVars,
    parseVars,
    zipVars,
    colVars,
    pongVars>>
notMatch == <<dccVars, fbVars, rateVars, sessVars, statusVars, smartVars,
    searchVars,
    selVars,
    addrVars,
    offerVars,
    parseVars,
    zipVars,
    colVars,
    pongVars>>
notSearch == <<dccVars, fbVars, rateVars, sessVars, statusVars, smartVars,
    matchVars,
    selVars,
    addrVars,
    offerVars,
    parseVars,
    zipVars,
    colVars,
    pongVars>>
notSel ==
  <<
    dccVars, fbVars, rateVars, sessVars, statusVars, smartVars, matchVars,
    searchVars
  ,
    addrVars,
    offerVars,
    parseVars,
    zipVars,
    colVars,
    pongVars>>
notAddr ==
  <<
    dccVars, fbVars, rateVars, sessVars, statusVars, smartVars, matchVars,
    searchVars, selVars
  ,
    offerVars,
    parseVars,
    zipVars,
    colVars,
    pongVars>>
notOffer ==
  <<
    dccVars, fbVars, rateVars, sessVars, statusVars, smartVars, matchVars,
    searchVars, selVars, addrVars
  ,
    parseVars,
    zipVars,
    colVars,
    pongVars>>
notParse ==
  <<
    dccVars, fbVars, rateVars, sessVars, statusVars, smartVars, matchVars,
    searchVars, selVars, addrVars, offerVars
  ,
    zipVars,
    colVars,
    pongVars>>
notZip ==
  <<
    dccVars, fbVars, rateVars, sessVars, statusVars, smartVars, matchVars,
    searchVars, selVars, addrVars, offerVars, parseVars
  ,
    colVars,
    pongVars>>
notCol ==
  <<
    dccVars, fbVars, rateVars, sessVars, statusVars, smartVars, matchVars,
    searchVars, selVars, addrVars, offerVars, parseVars, zipVars
  ,
    pongVars>>
notPong ==
  <<
    dccVars, fbVars, rateVars, sessVars, statusVars, smartVars, matchVars,
    searchVars, selVars, addrVars, offerVars, parseVars, zipVars, colVars
  >>

None == "None"

Min(a, b) == IF a < b THEN a ELSE b
Max(a, b) == IF a > b THEN a ELSE b

(***************************************************************************)
(* DCCHandler.download_file                                                *)
(***************************************************************************)

\* buffer_size = 4096
buffer_size == 4096

\* The declared size of the scenario of the specification (1000 bytes, of
\* which 800 arrive), and the largest declared size the model draws: larger
\* than buffer_size, so that both arms of min(buffer_size, size - received)
\* are taken.
ScenarioSize == 1000
MaxDeclaredSize == 4100

DeclaredSizes == {0, 1, ScenarioSize, buffer_size, MaxDeclaredSize}

\* The lengths sock.recv(n) may return: any length from 1 to n is possible;
\* the model draws n itself, one byte, and the part lengths of the scenario.
ChunkLens(n) == {k \in {1, 200, 800, n} : k >= 1 /\ k <= n}

\* recv(min(buffer_size, dcc.size - received))
RecvSize(size, got) == Min(buffer_size, size - got)

\* The dictionary of the except clause, which carries no byte counts.
ExceptResult(d) == [success |-> FALSE, error |-> "DCC download failed", filename |-> d.filename]

\* The verification after the loop, a mutant that accepts a short file.
VerifyResult_Partial(d, got) ==
    [success |-> TRUE, filename |-> d.filename, size |-> got]
VerifyResult(d, got) ==
    IF got # d.size
    THEN [success |-> FALSE, error |-> "Download incomplete",
          received |-> got, expected |-> d.size]
    ELSE [success |-> TRUE, filename |-> d.filename, size |-> got]

InitDCC ==
    /\ dcc \in [filename : {"book.epub"}, size : DeclaredSizes]
    /\ dccPc = "connect"
    /\ received = 0
    /\ written = 0
    /\ requested = 0
    /\ dccRaised = FALSE
    /\ dccResult = None

\* The variables of the transfer while no transfer is modelled.
IdleDCC ==
    /\ dcc = [filename |-> "book.epub", size |-> 0]
    /\ dccPc = "idle"
    /\ received = 0
    /\ written = 0
    /\ requested = 0
    /\ dccRaised = FALSE
    /\ dccResult = None

\* sock.connect and open(output_path, "wb"): either may raise.
DccConnect ==
    /\ dccPc = "connect"
    /\ \E ok \in BOOLEAN :
         IF ok
         THEN /\ dccPc' = "loop"
              /\ UNCHANGED <<dccRaised, dccResult>>
         ELSE /\ dccPc' = "done"
              /\ dccRaised' = TRUE
              /\ dccResult' = ExceptResult(dcc)
    /\ UNCHANGED <<dcc, received, written, requested>>
    /\ UNCHANGED notDcc

\* One iteration of while received < dcc.size: data arrives, the peer has
\* closed (recv returns b""), or recv raises (the 30 s timeout, a reset).
DccRecv ==
    /\ dccPc = "loop"
    /\ received < dcc.size
    /\ requested' = RecvSize(dcc.size, received)
    /\ \/ \E n \in ChunkLens(requested') :
            /\ written' = written + n
            /\ received' = received + n
            /\ UNCHANGED <<dccPc, dccRaised, dccResult>>
       \/ /\ dccPc' = "verify"
          /\ UNCHANGED <<received, written, dccRaised, dccResult>>
       \/ /\ dccPc' = "done"
          /\ dccRaised' = TRUE
          /\ dccResult' = ExceptResult(dcc)
          /\ UNCHANGED <<received, written>>
    /\ UNCHANGED dcc
    /\ UNCHANGED notDcc

\* The loop condition fails: every declared byte has arrived.
DccLoopEnd ==
    /\ dccPc = "loop"
    /\ ~(received < dcc.size)
    /\ dccPc' = "verify"
    /\ UNCHANGED <<dcc, received, written, requested, dccRaised, dccResult>>
    /\ UNCHANGED notDcc

\* sock.close() and the comparison of received with dcc.size.
DccVerify ==
    /\ dccPc = "verify"
    /\ dccPc' = "done"
    /\ dccResult' = VerifyResult(dcc, received)
    /\ UNCHANGED <<dcc, received, written, requested, dccRaised>>
    /\ UNCHANGED notDcc

NextDCC ==
    \/ DccConnect
    \/ DccRecv
    \/ DccLoopEnd
    \/ DccVerify

(***************************************************************************)
(* IRCSession.download_with_fallback and _download_with_timeout            *)
(***************************************************************************)

\* The longest candidate list the model draws.
MaxCandidates == 3

\* A key a dictionary does not hold.
Missing == "Missing"

\* The candidate dictionaries the lists are drawn from. Candidates come
\* from search_title_level or from the caller (the fallback endpoint of
\* the API passes the request's list on), so one may lack its
\* download_command.
CandidatePool ==
    { [server |-> "Ook", download_command |-> "!Ook book"],
      [server |-> "DV8", download_command |-> "!DV8 book"],
      [server |-> "Bsk", download_command |-> Missing] }

SeqsUpTo(S, n) == UNION {[1..k -> S] : k \in 0..n}

\* What download_file does when it is called: returns a success or a
\* failure dictionary, raises, or is interrupted by the alarm.
DownloadBehaviours == {"success", "failure", "raises", "timeout"}

\* _download_with_timeout(candidate["download_command"], ...) as the loop
\* body sees it. The subscript raises KeyError before the call;
\* signal.signal raises ValueError off the main thread, before the try;
\* anything download_file raises, the alarm's TimeoutError included, comes
\* back as a failure dictionary.
DownloadIssued(c, main) == c.download_command # Missing /\ main
DownloadWithTimeout(c, main, dl) ==
    IF ~DownloadIssued(c, main) THEN "exception"
    ELSE IF dl = "success" THEN "success"
    ELSE "failure"

\* for attempt, candidate in enumerate(candidates, 1)
NextAttempt(tried) == Len(tried) + 1

\* The annotated result of the successful attempt; a mutant numbering
\* attempts from 0.
SuccessResult_FromZero(attempt, cands) ==
    [success |-> TRUE, attempt_number |-> attempt - 1,
     total_attempts |-> Len(cands), used_candidate |-> cands[attempt]]
SuccessResult(attempt, cands) ==
    [success |-> TRUE, attempt_number |-> attempt,
     total_attempts |-> Len(cands), used_candidate |-> cands[attempt]]

\* The aggregate failure; a mutant listing one candidate too few.
AllFailedResult_Short(cands) ==
    [success |-> FALSE, error |-> "All download candidates failed",
     total_attempts |-> Len(cands),
     candidates_tried |-> [i \in 1..(Len(cands) - 1) |-> cands[i].server]]
AllFailedResult(cands) ==
    [success |-> FALSE, error |-> "All download candidates failed",
     total_attempts |-> Len(cands),
     candidates_tried |-> [i \in 1..Len(cands) |-> cands[i].server]]

NoCandidatesResult == [success |-> FALSE, error |-> "No candidates provided"]

InitFallback ==
    /\ candidates \in SeqsUpTo(CandidatePool, MaxCandidates)
    /\ mainThread \in BOOLEAN
    /\ fbPc = "start"
    /\ fbTried = <<>>
    /\ fbOutcomes = <<>>
    /\ fbIssued = <<>>
    /\ fbResult = None

IdleFallback ==
    /\ candidates = <<>>
    /\ mainThread = TRUE
    /\ fbPc = "idle"
    /\ fbTried = <<>>
    /\ fbOutcomes = <<>>
    /\ fbIssued = <<>>
    /\ fbResult = None

\* if not candidates: return {"success": False, ...}
FbStart ==
    /\ fbPc = "start"
    /\ IF candidates = <<>>
       THEN fbPc' = "done" /\ fbResult' = NoCandidatesResult
       ELSE fbPc' = "loop" /\ UNCHANGED fbResult
    /\ UNCHANGED <<candidates, mainThread, fbTried, fbOutcomes, fbIssued>>
    /\ UNCHANGED notFb

\* One iteration of the for loop, and the return that follows the last.
FbAttempt ==
    /\ fbPc = "loop"
    /\ LET attempt == NextAttempt(fbTried)
           candidate == candidates[attempt]
       IN \E dl \in DownloadBehaviours :
            LET outcome == DownloadWithTimeout(candidate, mainThread, dl)
            IN /\ fbTried' = Append(fbTried, attempt)
               /\ fbOutcomes' = Append(fbOutcomes, outcome)
               /\ fbIssued' = IF DownloadIssued(candidate, mainThread)
                              THEN Append(fbIssued, candidate.download_command)
                              ELSE fbIssued
               /\ IF outcome = "success"
                  THEN /\ fbResult' = SuccessResult(attempt, candidates)
                       /\ fbPc' = "done"
                  ELSE IF attempt < Len(candidates)
                  THEN UNCHANGED <<fbResult, fbPc>>
                  ELSE /\ fbResult' = AllFailedResult(candidates)
                       /\ fbPc' = "done"
    /\ UNCHANGED <<candidates, mainThread>>
    /\ UNCHANGED notFb

NextFallback ==
    \/ FbStart
    \/ FbAttempt

(***************************************************************************)
(* IRCSession._enforce_rate_limit and the sends of search_books and        *)
(* download_file, on one connected session whose operations are called one *)
(* after another. Time is in whole seconds. Between the timestamp that     *)
(* _enforce_rate_limit records and the socket.send of the command the code *)
(* only clears two lists and formats a string, so the send is placed at    *)
(* the recorded second.                                                    *)
(***************************************************************************)

\* self.rate_limit_delay = 10
rate_limit_delay == 10

\* timeout = 20 in search_books: the collection window
search_timeout == 20

\* The model stops issuing commands once the clock has passed MaxClock, and
\* lets a download return within MaxDownloadTime seconds of its send.
MaxClock == 40
MaxDownloadTime == 3

\* time.time() counts seconds since 1970 and last_command_time starts at
\* 0: at a session's first command the clock is far past rate_limit_delay.
\* The model starts at the smallest such value.
StartClock == rate_limit_delay

\* sleep_time of _enforce_rate_limit (0: no sleep); a mutant that compares
\* and sleeps one second short.
SleepTime_Short(now, last) ==
    IF now - last < rate_limit_delay - 1
    THEN rate_limit_delay - 1 - (now - last)
    ELSE 0
SleepTime(now, last) ==
    IF now - last < rate_limit_delay
    THEN rate_limit_delay - (now - last)
    ELSE 0

\* How long after its send an operation returns: search_books polls once a
\* second for at most search_timeout seconds; download_file may return at
\* once (no offer, a failed transfer) or later.
SearchDurations == 1..search_timeout
DownloadDurations == 0..MaxDownloadTime

InitRate ==
    /\ rateClock = StartClock
    /\ last_command_time = 0
    /\ rateCount = 0
    /\ ratePrevSend = 0
    /\ rateLastSend = 0
    /\ rateSlept = 0

IdleRate ==
    /\ rateClock = 0
    /\ last_command_time = 0
    /\ rateCount = 0
    /\ ratePrevSend = 0
    /\ rateLastSend = 0
    /\ rateSlept = 0

\* _enforce_rate_limit, then the send, then the rest of the operation,
\* which lasts d seconds. time.sleep may return late (over = 1).
RateCommand(d) ==
    /\ \E over \in 0..1 :
         LET current_time == rateClock
             sleep_time == SleepTime(current_time, last_command_time)
             woke == current_time + sleep_time + (IF sleep_time > 0 THEN over ELSE 0)
         IN /\ rateSlept' = sleep_time
            /\ last_command_time' = woke
            /\ ratePrevSend' = rateLastSend
            /\ rateLastSend' = woke
            /\ rateCount' = Min(rateCount + 1, 2)
            /\ rateClock' = woke + d
    /\ UNCHANGED notRate

\* search_books, on a connected session.
RateSearchBooks ==
    /\ rateClock <= MaxClock
    /\ \E d \in SearchDurations : RateCommand(d)

\* download_file, on a connected session.
RateDownloadFile ==
    /\ rateClock <= MaxClock
    /\ \E d \in DownloadDurations : RateCommand(d)

\* Time passes between two calls.
RateTick ==
    /\ rateClock <= MaxClock
    /\ rateClock' = rateClock + 1
    /\ UNCHANGED <<last_command_time, rateCount, ratePrevSend, rateLastSend, rateSlept>>
    /\ UNCHANGED notRate

NextRate ==
    \/ RateSearchBooks
    \/ RateDownloadFile
    \/ RateTick

(***************************************************************************)
(* IRCSession: the object, and the thread that runs connect()              *)
(***************************************************************************)

\* IRCSession.__init__; session_id is made of the clock's whole second.
\* attrs holds the buffer attributes the object has got so far (hasattr):
\* _search_results and _dcc_offers are not set in __init__.
NewSession(now) ==
    [session_id |-> now,
     socket |-> None,
     connected |-> FALSE,
     joined_channel |-> FALSE,
     last_command_time |-> 0,
     status |-> [connected |-> FALSE, joined_channel |-> FALSE,
                 total_searches |-> 0, total_downloads |-> 0, errors |-> <<>>],
     attrs |-> {},
     search_results |-> <<>>,
     dcc_offers |-> <<>>]

\* What a step hands to a caller: nothing, an exception, or a value.  The
\* kind of a value is its Python type; of a dictionary the model keeps
\* success and error, of a list of records its length, of get_session's
\* result the object, of a session id the second it was made of.
NoRet == [kind |-> "nothing", success |-> FALSE, error |-> "", count |-> 0,
          obj |-> 0, id |-> 0]
Raised(e) == [NoRet EXCEPT !.kind = "raise", !.error = e]
Dict(ok, e) == [NoRet EXCEPT !.kind = "dict", !.success = ok, !.error = e]
List(n) == [NoRet EXCEPT !.kind = "list", !.count = n]
Bool(b) == [NoRet EXCEPT !.kind = "bool", !.success = b]
Object(o) == [NoRet EXCEPT !.kind = "object", !.obj = o]
Str(id) == [NoRet EXCEPT !.kind = "str", !.id = id]
ReturnedNone == [NoRet EXCEPT !.kind = "None"]

\* The threads that call into the sessions and the registry (request
\* handlers of the web application).
MaxCallers == 1
Callers == 1..MaxCallers

\* A caller thread that is in no operation.  Of a thread in an operation the
\* model keeps the object, the method, where it stands, who called, when
\* the rate limiter lets it go, and at the end the counter value it has
\* read from _status and the value it is about to return.
NoOp == [obj |-> 0, op |-> None, phase |-> "idle", via |-> None, wake |-> 0,
         seen |-> 0, result |-> NoRet]

\* max_retries = 3 and max_nick_retries = 3 in connect
max_retries == 3
max_nick_retries == 3

\* sleep_time = 5 * retry_count; a mutant that waits 5 s every time.
BackoffTime_Flat(retry_count) == 5
BackoffTime(retry_count) == 5 * retry_count

\* The thread of connect() before its first statement.
NewConnect ==
    [pc |-> "start", retry_count |-> 0, nick_retries |-> 0, resp |-> None,
     join_confirmed |-> FALSE, attempts |-> 0, backoffs |-> <<>>]

\* What socket.recv gives the registration loop: the chunk holds 004 or
\* Welcome; 433; ERROR or Closing Link; PING; something else (a NOTICE, a
\* numeric the loop does not look for); nothing (the server closed the
\* connection); or recv raises socket.timeout or another error.
RegistrationReplies ==
    {"welcome", "nick_in_use", "error", "ping", "notice", "other", "empty",
     "timeout", "reset"}

\* What socket.recv gives the join wait.
JoinReplies == {"joined", "ping", "other", "empty", "timeout", "reset"}

\* _update_status(updates): the caller's keys replace the status's.  (First
\* a mutant that records the connection only.)
UpdateConnected_FlagOnly(status) == [status EXCEPT !.connected = TRUE]
UpdateConnected(status) ==
    [status EXCEPT !.connected = TRUE, !.joined_channel = TRUE]
UpdateFailed(status) ==
    [status EXCEPT !.connected = FALSE,
                   !.errors = <<"Failed to connect after 3 attempts">>]

\* The except clause of connect, on the thread's locals: count the
\* attempt, and either sleep BackoffTime and go round again or return False.
ConnAfterFail(c) ==
    LET n == c.retry_count + 1
    IN [c EXCEPT !.retry_count = n,
                 !.nick_retries = 0,
                 !.resp = None,
                 !.join_confirmed = FALSE,
                 !.backoffs = IF n < max_retries THEN Append(@, BackoffTime(n)) ELSE @,
                 !.pc = IF n < max_retries THEN "start" ELSE "returned_false"]

\* The except clause of connect, on the object: close and drop the socket
\* and, after the last attempt, record the failure in the status.
SessAfterFail(s, c) ==
    [s EXCEPT !.socket = None,
              !.status = IF c.retry_count + 1 < max_retries
                         THEN @ ELSE UpdateFailed(@)]

\* The top of the retry loop: make the socket, connect, send NICK and USER.
\* socket.connect may raise (refused, timed out, a TLS failure).
ConnOpen(o) ==
    /\ conn[o].pc = "start"
    /\ LET c == [conn[o] EXCEPT !.attempts = @ + 1]
       IN \E ok \in BOOLEAN :
            IF ok
            THEN /\ sessions' = [sessions EXCEPT ![o].socket = "open"]
                 /\ conn' = [conn EXCEPT ![o] = [c EXCEPT !.pc = "registering"]]
                 /\ sent' = <<o, <<"NICK", "USER">>>>
            ELSE /\ sessions' = [sessions EXCEPT ![o] = SessAfterFail(@, c)]
                 /\ conn' = [conn EXCEPT ![o] = ConnAfterFail(c)]
                 /\ sent' = <<>>
    /\ ret' = NoRet
    /\ UNCHANGED <<clock, active_sessions, listener, opPc>>
    /\ UNCHANGED notSess

\* The replies that use up one of the max_nick_retries: nick_retries += 1
\* stands in the 433 branch and in the socket.timeout handler only.
Charged(r) == r \in {"nick_in_use", "timeout"}

\* One iteration of the registration loop
\*   while not connected and nick_retries < max_nick_retries
\* and, when it ends the loop without a welcome, the raise that follows.
\* A socket that disconnect() has dropped makes recv raise.
RegRead(o, reply) ==
    /\ conn[o].pc = "registering"
    /\ LET c == conn[o]
           r == IF sessions[o].socket = None THEN "reset" ELSE reply
           n == IF Charged(r) THEN c.nick_retries + 1 ELSE c.nick_retries
       IN IF r = "welcome"
          THEN /\ conn' = [conn EXCEPT ![o].pc = "joining", ![o].resp = r]
               /\ sent' = <<>>
               /\ UNCHANGED sessions
          ELSE IF r \in {"error", "reset"} \/ n >= max_nick_retries
          THEN /\ conn' = [conn EXCEPT ![o] = ConnAfterFail(c)]
               /\ sessions' = [sessions EXCEPT ![o] = SessAfterFail(@, c)]
               /\ sent' = IF r = "nick_in_use" THEN <<o, <<"NICK">>>> ELSE <<>>
          ELSE /\ conn' = [conn EXCEPT ![o].nick_retries = n, ![o].resp = r]
               /\ sent' = IF r = "nick_in_use" THEN <<o, <<"NICK">>>>
                          ELSE IF r = "ping" THEN <<o, <<"PONG">>>>
                          ELSE <<>>
               /\ UNCHANGED sessions
    /\ ret' = NoRet
    /\ UNCHANGED <<clock, active_sessions, listener, opPc>>
    /\ UNCHANGED notSess

\* time.sleep(2) and the JOIN.
JoinSend(o) ==
    /\ conn[o].pc = "joining"
    /\ IF sessions[o].socket = None
       THEN /\ conn' = [conn EXCEPT ![o] = ConnAfterFail(conn[o])]
            /\ sessions' = [sessions EXCEPT ![o] = SessAfterFail(@, conn[o])]
            /\ sent' = <<>>
       ELSE /\ conn' = [conn EXCEPT ![o].pc = "join_wait", ![o].resp = None]
            /\ sent' = <<o, <<"JOIN">>>>
            /\ UNCHANGED sessions
    /\ ret' = NoRet
    /\ UNCHANGED <<clock, active_sessions, listener, opPc>>
    /\ UNCHANGED notSess

\* One iteration of the join wait, before its 10 s have passed.
JoinRead(o, reply) ==
    /\ conn[o].pc = "join_wait"
    /\ ~conn[o].join_confirmed
    /\ LET r == IF sessions[o].socket = None THEN "reset" ELSE reply
       IN IF r = "reset"
          THEN /\ conn' = [conn EXCEPT ![o] = ConnAfterFail(conn[o])]
               /\ sessions' = [sessions EXCEPT ![o] = SessAfterFail(@, conn[o])]
               /\ sent' = <<>>
          ELSE /\ conn' = [conn EXCEPT ![o].resp = r,
                                       ![o].join_confirmed = (r = "joined")]
               /\ sent' = IF r = "ping" THEN <<o, <<"PONG">>>> ELSE <<>>
               /\ UNCHANGED sessions
    /\ ret' = NoRet
    /\ UNCHANGED <<clock, active_sessions, listener, opPc>>
    /\ UNCHANGED notSess

\* The join wait is over, confirmed or not (its 10 s have passed): log the
\* warning or the success, mark the session connected, start the listener
\* thread, return True.  Of the locals the model keeps join_confirmed, which
\* tells which of the two lines was logged.
ConnSucceed(o) ==
    /\ conn[o].pc = "join_wait"
    /\ sessions' = [sessions EXCEPT ![o].connected = TRUE,
                                    ![o].joined_channel = TRUE,
                                    ![o].status = UpdateConnected(@)]
    /\ listener' = [listener EXCEPT ![o] = Append(@, "running")]
    /\ conn' = [conn EXCEPT ![o] = [NewConnect EXCEPT
                                      !.pc = "returned_true",
                                      !.join_confirmed = conn[o].join_confirmed]]
    /\ sent' = <<>>
    /\ ret' = NoRet
    /\ UNCHANGED <<clock, active_sessions, opPc>>
    /\ UNCHANGED notSess

(***************************************************************************)
(* IRCSession: the listener thread, disconnect, and the operations         *)
(***************************************************************************)

\* How many raw lines and offers a buffer holds at most in the model.
MaxLines == 1
\* The last second of the model's clock.
MaxTime == 20

\* _store_search_result and _handle_dcc_offer: make the list if the object
\* has none, and append.
StoreLine(s) ==
    [s EXCEPT !.attrs = @ \cup {"_search_results"},
              !.search_results = Append(@, "line")]
StoreOffer(s) ==
    [s EXCEPT !.attrs = @ \cup {"_dcc_offers"},
              !.dcc_offers = Append(@, "offer")]

\* _process_irc_response on one chunk.
Process(s, reply) ==
    IF reply = "line" THEN StoreLine(s)
    ELSE IF reply = "offer" THEN StoreOffer(s)
    ELSE s

\* The chunk fits the model's buffers.
Fits(s, reply) ==
    /\ reply = "line" => Len(s.search_results) < MaxLines
    /\ reply = "offer" => Len(s.dcc_offers) < MaxLines

\* What socket.recv gives the listener and the download's own read loop: a
\* search result line, a DCC SEND offer, a PING, something else, nothing
\* (the server closed the connection), socket.timeout, or another error.
ListenerReplies == {"line", "offer", "ping", "other", "empty", "timeout", "reset"}

\* The listener threads of an object that are in their loop.
Running(threads) == {k \in DOMAIN threads : threads[k] = "running"}

\* A listener thread leaves its loop when the loop test
\*   while self.connected and self.socket
\* fails, on an empty read (break) and on an error other than
\* socket.timeout (break).  (First a mutant without the loop test.)
LoopEnds_OnReadOnly(s, reply) == reply \in {"empty", "reset"}
LoopEnds(s, reply) ==
    ~(s.connected /\ s.socket # None) \/ reply \in {"empty", "reset"}

\* One iteration of the loop of one of the object's listener threads, with
\* a read timeout of one second.  When it leaves the loop it sets no field.
ListenerStep(o, reply) ==
    /\ Fits(sessions[o], reply)
    /\ \E k \in Running(listener[o]) :
       LET s == sessions[o]
       IN IF LoopEnds(s, reply)
          THEN /\ listener' = [listener EXCEPT ![o][k] = "ended"]
               /\ sent' = <<>>
               /\ UNCHANGED sessions
          ELSE /\ sessions' = [sessions EXCEPT ![o] = Process(s, reply)]
               /\ sent' = IF reply = "ping" THEN <<o, <<"PONG">>>> ELSE <<>>
               /\ UNCHANGED listener
    /\ ret' = NoRet
    /\ UNCHANGED <<clock, active_sessions, conn, opPc>>
    /\ UNCHANGED notSess

\* IRCSession.disconnect on the object: with a socket, QUIT (best effort),
\* close, and in the finally clause drop the socket and clear both flags;
\* without one, nothing.  The status dictionary is not touched.  (First a
\* mutant that skips the test of the socket.)
Disconnected_Unguarded(s) ==
    [s EXCEPT !.socket = None, !.connected = FALSE, !.joined_channel = FALSE]
Disconnected(s) ==
    IF s.socket = None THEN s
    ELSE [s EXCEPT !.socket = None, !.connected = FALSE, !.joined_channel = FALSE]

\* A caller that holds the object calls disconnect().
Disconnect(i, o) ==
    /\ opPc[i].phase = "idle"
    /\ sessions' = [sessions EXCEPT ![o] = Disconnected(@)]
    /\ \E ok \in BOOLEAN :
         sent' = IF sessions[o].socket # None /\ ok THEN <<o, <<"QUIT">>>> ELSE <<>>
    /\ ret' = ReturnedNone
    /\ UNCHANGED <<clock, active_sessions, conn, listener, opPc>>
    /\ UNCHANGED notSess

\* The four operations that open with the guard
\*   if not self.connected or not self.socket: raise Exception(...)
Methods == {"search_books", "download_file", "search_author_level", "search_title_level"}
NotConnectedError == "Not connected to IRC"

\* The guard; a mutant that looks at the flag only.
NotReady_FlagOnly(s) == ~s.connected
NotReady(s) == ~s.connected \/ s.socket = None

\* What a running operation hands back: a direct caller gets the value or
\* the exception; a registry function catches the exception and returns
\* its text with success = False, and wraps a list of records in a
\* dictionary with success = True.
Deliver(p, r) ==
    IF p.via = "direct" THEN r
    ELSE IF r.kind = "raise" THEN Dict(FALSE, r.error)
    ELSE IF r.kind = "list" THEN [Dict(TRUE, "") EXCEPT !.count = r.count]
    ELSE r

\* The method whose body sends the command: the author- and title-level
\* searches run search_books and select among what it returns.
Command(op) == IF op = "download_file" THEN "download_file" ELSE "search_books"

\* The call of a method on the object, up to and including the moment
\* _enforce_rate_limit has read the clock: the guard raises, or the thread
\* goes to sleep until rate_limit_delay has passed since last_command_time.
\* search_author_level and search_title_level pass their own guard and then
\* search_books' guard.
Begin(i, o, op, via) ==
    LET wake == clock + SleepTime(clock, sessions[o].last_command_time)
    IN /\ wake <= MaxTime
       /\ opPc' = [opPc EXCEPT ![i] = [NoOp EXCEPT !.obj = o,
                                                   !.op = Command(op),
                                                   !.phase = "rate_limit",
                                                   !.via = via,
                                                   !.wake = wake]]
       /\ ret' = NoRet
       /\ sent' = <<>>
       /\ UNCHANGED <<clock, active_sessions, sessions, conn, listener>>

MethodCall(i, o, op) ==
    /\ opPc[i].phase = "idle"
    /\ IF NotReady(sessions[o])
       THEN /\ ret' = Raised(NotConnectedError)
            /\ sent' = <<>>
            /\ UNCHANGED <<clock, active_sessions, sessions, conn, listener, opPc>>
       ELSE Begin(i, o, op, "direct")
    /\ UNCHANGED notSess

\* The clear that opens an operation: search_books binds both buffers to
\* new empty lists; download_file empties _dcc_offers, or makes it if the
\* object has none.  (First a mutant that leaves the buffers as they are.)
Cleared_Kept(s, op) == s
Cleared(s, op) ==
    IF op = "download_file"
    THEN [s EXCEPT !.attrs = @ \cup {"_dcc_offers"},
                   !.dcc_offers = <<>>]
    ELSE [s EXCEPT !.attrs = {"_search_results", "_dcc_offers"},
                   !.search_results = <<>>,
                   !.dcc_offers = <<>>]

\* After the sleep: record the time, empty the buffers, send the command.
\* The send fails when the socket is broken or has been dropped by
\* disconnect() in the meantime.
MethodSend(i) ==
    /\ opPc[i].phase = "rate_limit"
    /\ LET p == opPc[i]
           o == p.obj
           now == Max(clock, p.wake)
           s == [sessions[o] EXCEPT !.last_command_time = now]
           cleared == Cleared(s, p.op)
       IN /\ clock' = now
          /\ sessions' = [sessions EXCEPT ![o] = cleared]
          /\ \E ok \in BOOLEAN :
               IF ok /\ s.socket # None
               THEN /\ sent' = <<o, <<"PRIVMSG">>>>
                    /\ opPc' = [opPc EXCEPT ![i].phase =
                                  IF p.op = "download_file" THEN "offer_wait"
                                  ELSE "collecting"]
                    /\ ret' = NoRet
               ELSE /\ sent' = <<>>
                    /\ opPc' = [opPc EXCEPT ![i] = NoOp]
                    /\ ret' = Deliver(p, Raised(
                                  IF p.op = "download_file" THEN "send failed"
                                  ELSE "Failed to send search command"))
    /\ UNCHANGED <<active_sessions, conn, listener>>
    /\ UNCHANGED notSess

\* The collection window of search_books is over (20 polls of one second,
\* or max_results lines buffered): with at least one buffered line the
\* lines are parsed and filtered into the records to return (the author-
\* and title-level searches select among them) and the argument of
\* _update_status is evaluated, which reads total_searches outside the
\* status lock; with none, the empty list is returned.
SearchReturn(i) ==
    /\ opPc[i].phase = "collecting"
    /\ LET p == opPc[i]
           o == p.obj
           s == sessions[o]
           n == IF "_search_results" \in s.attrs THEN Len(s.search_results) ELSE 0
       IN IF n > 0
          THEN /\ \E k \in 0..n :
                    opPc' = [opPc EXCEPT ![i].phase = "counting",
                                         ![i].seen = s.status.total_searches,
                                         ![i].result = List(k)]
               /\ ret' = NoRet
          ELSE /\ opPc' = [opPc EXCEPT ![i] = NoOp]
               /\ ret' = Deliver(p, List(0))
    /\ sent' = <<>>
    /\ UNCHANGED <<clock, active_sessions, sessions, conn, listener>>
    /\ UNCHANGED notSess

\* _update_status, under the status lock, with the counter the operation
\* has computed from what it read, and the return of the operation.
CountedValue(seen) == seen + 1
CountUpdate(i) ==
    /\ opPc[i].phase = "counting"
    /\ LET p == opPc[i]
           o == p.obj
       IN /\ sessions' =
               IF p.op = "download_file"
               THEN [sessions EXCEPT ![o].status.total_downloads = CountedValue(p.seen)]
               ELSE [sessions EXCEPT ![o].status.total_searches = CountedValue(p.seen)]
          /\ ret' = Deliver(p, p.result)
    /\ opPc' = [opPc EXCEPT ![i] = NoOp]
    /\ sent' = <<>>
    /\ UNCHANGED <<clock, active_sessions, conn, listener>>
    /\ UNCHANGED notSess

\* One iteration of download_file's own read loop.  A timeout or an error
\* (a dropped socket among them) leaves the loop with no offer; a chunk is
\* processed and, if _dcc_offers is then not empty, its last offer taken.
DownloadRecv(i, reply) ==
    /\ opPc[i].phase = "offer_wait"
    /\ LET p == opPc[i]
           o == p.obj
           s == sessions[o]
           r == IF s.socket = None THEN "reset" ELSE reply
           t == Process(s, r)
       IN /\ Fits(s, r)
          /\ IF r \in {"timeout", "reset"}
             THEN /\ opPc' = [opPc EXCEPT ![i] = NoOp]
                  /\ ret' = Deliver(p, Dict(FALSE, "No DCC offer received"))
                  /\ sent' = <<>>
                  /\ UNCHANGED sessions
             ELSE IF r = "empty"
             THEN /\ ret' = NoRet
                  /\ sent' = <<>>
                  /\ UNCHANGED <<sessions, opPc>>
             ELSE /\ sessions' = [sessions EXCEPT ![o] = t]
                  /\ sent' = IF r = "ping" THEN <<o, <<"PONG">>>> ELSE <<>>
                  /\ ret' = NoRet
                  /\ opPc' = IF "_dcc_offers" \in t.attrs /\ t.dcc_offers # <<>>
                             THEN [opPc EXCEPT ![i].phase = "transfer"]
                             ELSE opPc
    /\ UNCHANGED <<clock, active_sessions, conn, listener>>
    /\ UNCHANGED notSess

\* response_timeout has passed in the read loop: no offer was taken.
DownloadTimeUp(i) ==
    /\ opPc[i].phase = "offer_wait"
    /\ ret' = Deliver(opPc[i], Dict(FALSE, "No DCC offer received"))
    /\ opPc' = [opPc EXCEPT ![i] = NoOp]
    /\ sent' = <<>>
    /\ UNCHANGED <<clock, active_sessions, sessions, conn, listener>>
    /\ UNCHANGED notSess

\* The DCC transfer of the offer taken has ended: on success the argument
\* of _update_status is evaluated, which reads total_downloads outside the
\* status lock; on failure the operation returns.
DownloadFinish(i, ok) ==
    /\ opPc[i].phase = "transfer"
    /\ LET p == opPc[i]
           o == p.obj
       IN IF ok
          THEN /\ opPc' = [opPc EXCEPT ![i].phase = "counting",
                                       ![i].seen = sessions[o].status.total_downloads,
                                       ![i].result = Dict(TRUE, "")]
               /\ ret' = NoRet
          ELSE /\ opPc' = [opPc EXCEPT ![i] = NoOp]
               /\ ret' = Deliver(p, Dict(FALSE, "DCC download failed"))
    /\ sent' = <<>>
    /\ UNCHANGED <<clock, active_sessions, sessions, conn, listener>>
    /\ UNCHANGED notSess

\* Time passes: the clock is read rate_limit_delay seconds later.
Tick ==
    /\ clock + rate_limit_delay <= MaxTime
    /\ clock' = clock + rate_limit_delay
    /\ sent' = <<>>
    /\ ret' = NoRet
    /\ UNCHANGED <<active_sessions, sessions, conn, listener, opPc>>
    /\ UNCHANGED notSess

\* One session, as create_irc_session leaves it: registered, its connect
\* thread started.
InitOneSession ==
    /\ clock = StartClock
    /\ sessions = <<NewSession(StartClock)>>
    /\ active_sessions = (StartClock :> 1)
    /\ conn = <<NewConnect>>
    /\ listener = << <<>> >>
    /\ opPc = [i \in Callers |-> NoOp]
    /\ sent = <<>>
    /\ ret = NoRet

IdleSessions ==
    /\ clock = 0
    /\ sessions = <<>>
    /\ active_sessions = <<>>
    /\ conn = <<>>
    /\ listener = <<>>
    /\ opPc = <<>>
    /\ sent = <<>>
    /\ ret = NoRet

NextConnect ==
    \/ \E o \in DOMAIN conn : ConnOpen(o)
    \/ \E o \in DOMAIN conn : \E r \in RegistrationReplies : RegRead(o, r)
    \/ \E o \in DOMAIN conn : JoinSend(o)
    \/ \E o \in DOMAIN conn : \E r \in JoinReplies : JoinRead(o, r)
    \/ \E o \in DOMAIN conn : ConnSucceed(o)

(***************************************************************************)
(* The registry: _active_sessions and the module-level functions            *)
(***************************************************************************)

\* How many IRCSession objects are made at most.
MaxSessions == 2

\* The ids a caller passes: those the clock can give.
CallerIds == {t \in StartClock..MaxTime : t % rate_limit_delay = 0}

\* _active_sessions.pop(session_id, None); a mutant that leaves the entry.
Popped_Kept(registry, id) == registry
Popped(registry, id) == [k \in DOMAIN registry \ {id} |-> registry[k]]

\* create_irc_session: make the object, put it in the registry under its
\* id (replacing what the id held), start the thread that runs connect().
CreateSession(i) ==
    /\ opPc[i].phase = "idle"
    /\ Len(sessions) < MaxSessions
    /\ LET o == Len(sessions) + 1
       IN /\ sessions' = Append(sessions, NewSession(clock))
          /\ active_sessions' = (clock :> o) @@ active_sessions
          /\ conn' = Append(conn, NewConnect)
          /\ listener' = Append(listener, <<>>)
          /\ ret' = Str(clock)
    /\ sent' = <<>>
    /\ UNCHANGED <<clock, opPc>>
    /\ UNCHANGED notSess

\* get_session: the object, or None.
GetSession(i, id) ==
    /\ opPc[i].phase = "idle"
    /\ ret' = IF id \in DOMAIN active_sessions
              THEN Object(active_sessions[id])
              ELSE ReturnedNone
    /\ sent' = <<>>
    /\ UNCHANGED <<clock, active_sessions, sessions, conn, listener, opPc>>
    /\ UNCHANGED notSess

\* close_session: under the lock, pop the entry and, if there was one,
\* disconnect the session and return True; else return False.
CloseSession(i, id) ==
    /\ opPc[i].phase = "idle"
    /\ IF id \in DOMAIN active_sessions
       THEN LET o == active_sessions[id]
            IN /\ active_sessions' = Popped(active_sessions, id)
               /\ sessions' = [sessions EXCEPT ![o] = Disconnected(@)]
               /\ \E ok \in BOOLEAN :
                    sent' = IF sessions[o].socket # None /\ ok
                            THEN <<o, <<"QUIT">>>> ELSE <<>>
               /\ ret' = Bool(TRUE)
       ELSE /\ ret' = Bool(FALSE)
            /\ sent' = <<>>
            /\ UNCHANGED <<active_sessions, sessions>>
    /\ UNCHANGED <<clock, conn, listener, opPc>>
    /\ UNCHANGED notSess

\* get_session_status
GetSessionStatus(i, id) ==
    /\ opPc[i].phase = "idle"
    /\ ret' = IF id \in DOMAIN active_sessions
              THEN [Dict(TRUE, "") EXCEPT !.id = id]
              ELSE Dict(FALSE, "Session not found")
    /\ sent' = <<>>
    /\ UNCHANGED <<clock, active_sessions, sessions, conn, listener, opPc>>
    /\ UNCHANGED notSess

\* The functions that look the session up, refuse when there is none or
\* its connected flag is False, and else call a method of it inside
\* try/except; and the method each calls.  smart_search_and_download is
\* called without a title (it runs the author-level search only) and
\* download_with_server_fallback with an empty candidate list (it returns
\* before any download).
RegistryFunctions ==
    {"search_and_download", "download_from_result", "search_epub_only",
     "download_epub_only", "smart_search_and_download", "search_author_books",
     "search_specific_book", "download_with_server_fallback"}

CalledMethod(w) ==
    CASE w \in {"search_and_download", "search_epub_only"} -> "search_books"
      [] w \in {"download_from_result", "download_epub_only"} -> "download_file"
      [] w \in {"smart_search_and_download", "search_author_books"} -> "search_author_level"
      [] w = "search_specific_book" -> "search_title_level"
      [] OTHER -> None

RegistryCall(i, id, w) ==
    /\ opPc[i].phase = "idle"
    /\ IF id \notin DOMAIN active_sessions
       THEN /\ ret' = Dict(FALSE, "Session not found")
            /\ sent' = <<>>
            /\ UNCHANGED <<clock, active_sessions, sessions, conn, listener, opPc>>
       ELSE LET o == active_sessions[id]
            IN IF ~sessions[o].connected
               THEN /\ ret' = Dict(FALSE, "Session not connected")
                    /\ sent' = <<>>
                    /\ UNCHANGED <<clock, active_sessions, sessions, conn, listener, opPc>>
               ELSE IF w = "download_with_server_fallback"
               THEN /\ ret' = Dict(FALSE, "No candidates provided")
                    /\ sent' = <<>>
                    /\ UNCHANGED <<clock, active_sessions, sessions, conn, listener, opPc>>
               ELSE IF NotReady(sessions[o])
               THEN /\ ret' = Dict(FALSE, NotConnectedError)
                    /\ sent' = <<>>
                    /\ UNCHANGED <<clock, active_sessions, sessions, conn, listener, opPc>>
               ELSE Begin(i, o, CalledMethod(w), "registry")
    /\ UNCHANGED notSess

\* The empty registry of a process that has just imported the module.
InitRegistry ==
    /\ clock = StartClock
    /\ sessions = <<>>
    /\ active_sessions = <<>>
    /\ conn = <<>>
    /\ listener = <<>>
    /\ opPc = [i \in Callers |-> NoOp]
    /\ sent = <<>>
    /\ ret = NoRet

\* The replies of a server that speaks the protocol without delay: it
\* welcomes or refuses, confirms the join, sends an offer when asked for a
\* file or lets the request time out, and may close the connection.
PlainRegistrationReplies == {"welcome", "error"}
PlainJoinReplies == {"joined"}
PlainListenerReplies == {"empty"}
PlainDownloadReplies == {"offer", "timeout"}

\* The registry, its callers, and the threads of the sessions made.
NextRegistry ==
    \/ \E i \in Callers : CreateSession(i)
    \/ \E i \in Callers : \E id \in CallerIds : GetSession(i, id)
    \/ \E i \in Callers : \E id \in CallerIds : CloseSession(i, id)
    \/ \E i \in Callers : \E id \in CallerIds : GetSessionStatus(i, id)
    \/ \E i \in Callers : \E id \in CallerIds : \E w \in RegistryFunctions :
         RegistryCall(i, id, w)
    \/ \E o \in DOMAIN conn : ConnOpen(o)
    \/ \E o \in DOMAIN conn : \E r \in PlainRegistrationReplies : RegRead(o, r)
    \/ \E o \in DOMAIN conn : JoinSend(o)
    \/ \E o \in DOMAIN conn : \E r \in PlainJoinReplies : JoinRead(o, r)
    \/ \E o \in DOMAIN conn : ConnSucceed(o)
    \/ \E o \in DOMAIN sessions : \E r \in PlainListenerReplies : ListenerStep(o, r)
    \/ \E i \in Callers : MethodSend(i)
    \/ \E i \in Callers : SearchReturn(i)
    \/ \E i \in Callers : CountUpdate(i)
    \/ \E i \in Callers : \E r \in PlainDownloadReplies : DownloadRecv(i, r)
    \/ \E i \in Callers : DownloadTimeUp(i)
    \/ \E i \in Callers : \E ok \in BOOLEAN : DownloadFinish(i, ok)
    \/ Tick

\* One session object, the thread of its connect(), its listener, and the
\* callers that hold the object.
NextSession ==
    \/ \E o \in DOMAIN conn : ConnOpen(o)
    \/ \E o \in DOMAIN conn : \E r \in RegistrationReplies : RegRead(o, r)
    \/ \E o \in DOMAIN conn : JoinSend(o)
    \/ \E o \in DOMAIN conn : \E r \in JoinReplies : JoinRead(o, r)
    \/ \E o \in DOMAIN conn : ConnSucceed(o)
    \/ \E o \in DOMAIN sessions : \E r \in ListenerReplies : ListenerStep(o, r)
    \/ \E i \in Callers : \E o \in DOMAIN sessions : Disconnect(i, o)
    \/ \E i \in Callers : \E o \in DOMAIN sessions : \E op \in Methods : MethodCall(i, o, op)
    \/ \E i \in Callers : MethodSend(i)
    \/ \E i \in Callers : SearchReturn(i)
    \/ \E i \in Callers : CountUpdate(i)
    \/ \E i \in Callers : \E r \in ListenerReplies : DownloadRecv(i, r)
    \/ \E i \in Callers : DownloadTimeUp(i)
    \/ \E i \in Callers : \E ok \in BOOLEAN : DownloadFinish(i, ok)
    \/ Tick

(***************************************************************************)
(* IRCSession._status, _update_status and get_status                       *)
(***************************************************************************)

\* How many dictionaries get_status() hands out, how many _update_status
\* calls are made, and how long a list of errors grows, in the model.
MaxSnapshots == 2
MaxUpdates == 3
MaxErrors == 2

\* dict.update: the keys of u are set, the others kept.
Updated(d, u) ==
    [k \in DOMAIN d \cup DOMAIN u |-> IF k \in DOMAIN u THEN u[k] ELSE d[k]]

\* dict.copy(): a new dictionary with the same keys and the same values;
\* a value that is a reference (the errors list) is the same reference.
Copy(d) == d

\* _status as __init__ makes it, with the one list [] it refers to.
\* last_activity counts the updates made (None before the first).
InitStatus ==
    /\ lists = << <<>> >>
    /\ statusDict = [connected |-> FALSE, joined_channel |-> FALSE,
                     last_activity |-> 0, total_searches |-> 0,
                     total_downloads |-> 0, errors |-> 1]
    /\ snapshots = <<>>

IdleStatus ==
    /\ lists = <<>>
    /\ statusDict = <<>>
    /\ snapshots = <<>>

\* The dictionaries the code passes to _update_status that hold no list:
\* connect()'s success, search_books' and download_file's counters.
PlainUpdates ==
    { [connected |-> TRUE, joined_channel |-> TRUE],
      [total_searches |-> statusDict.total_searches + 1],
      [total_downloads |-> statusDict.total_downloads + 1] }

\* _update_status(updates), under the lock: update, then stamp
\* last_activity.
UpdateStatus(u) ==
    /\ statusDict.last_activity < MaxUpdates
    /\ statusDict' = [Updated(statusDict, u) EXCEPT
                         !.last_activity = statusDict.last_activity + 1]
    /\ UNCHANGED <<lists, snapshots>>
    /\ UNCHANGED notStatus

\* _update_status({"connected": False, "errors": [message]}) of connect()'s
\* last failure: the list literal makes a new list object.
UpdateStatusErrors ==
    /\ statusDict.last_activity < MaxUpdates
    /\ lists' = Append(lists, <<"Failed to connect">>)
    /\ statusDict' = [Updated(statusDict, [connected |-> FALSE,
                                           errors |-> Len(lists) + 1])
                         EXCEPT !.last_activity = statusDict.last_activity + 1]
    /\ UNCHANGED snapshots
    /\ UNCHANGED notStatus

\* get_status(), under the lock: return self._status.copy().
GetStatus ==
    /\ Len(snapshots) < MaxSnapshots
    /\ snapshots' = Append(snapshots, Copy(statusDict))
    /\ UNCHANGED <<lists, statusDict>>
    /\ UNCHANGED notStatus

\* A caller assigns to a key of the dictionary it was given.
CallerAssigns(k, key, value) ==
    /\ snapshots' = [snapshots EXCEPT ![k] = Updated(@, key :> value)]
    /\ UNCHANGED <<lists, statusDict>>
    /\ UNCHANGED notStatus

\* A caller appends to the errors list of the dictionary it was given.
CallerAppends(k) ==
    /\ Len(lists[snapshots[k].errors]) < MaxErrors
    /\ lists' = [lists EXCEPT ![snapshots[k].errors] = Append(@, "noted by caller")]
    /\ UNCHANGED <<statusDict, snapshots>>
    /\ UNCHANGED notStatus

\* What a dictionary shows to one who reads it: its entries, the errors
\* entry read through the reference.
Shown(d, heap) == [d EXCEPT !.errors = heap[@]]

NextStatus ==
    \/ \E u \in PlainUpdates : UpdateStatus(u)
    \/ UpdateStatusErrors
    \/ GetStatus
    \/ \E k \in DOMAIN snapshots : \E b \in BOOLEAN : CallerAssigns(k, "connected", b)
    \/ \E k \in DOMAIN snapshots : CallerAppends(k)

(***************************************************************************)
(* IRCSession.smart_search_and_download                                    *)
(***************************************************************************)

\* The title arguments: none, the empty string, a title.
SmartTitles == {None, "", "Dune"}

\* if title:
Truthy(t) == t # None /\ t # ""

\* What search_title_level and search_author_level return when they do not
\* raise: records with a download command, no server twice.
FoundPool ==
    { [server |-> "Ook", download_command |-> "!Ook book"],
      [server |-> "DV8", download_command |-> "!DV8 book"],
      [server |-> "Bsk", download_command |-> "!Bsk book"] }
FoundLists ==
    {f \in SeqsUpTo(FoundPool, MaxCandidates) :
        \A i, j \in DOMAIN f : i # j => f[i].server # f[j].server}

\* What leaves the function when something inside the try block raised
\* (the searches raise when the session is not connected or the send
\* fails): the except clause makes a failure dictionary of it.  (First a
\* mutant that lets the exception through.)
SmartCaught_Reraise(e) == [raised |-> e]
SmartCaught(e) ==
    [success |-> FALSE, error |-> "Smart search failed", search_type |-> "smart_search"]

InitSmart ==
    /\ smartTitle \in SmartTitles
    /\ smartPc = "start"
    /\ smartSearches = <<>>
    /\ smartFound = <<>>
    /\ smartFallbacks = 0
    /\ smartResult = <<>>
    /\ candidates = <<>>
    /\ mainThread \in BOOLEAN
    /\ fbPc = "idle"
    /\ fbTried = <<>>
    /\ fbOutcomes = <<>>
    /\ fbIssued = <<>>
    /\ fbResult = None

IdleSmart ==
    /\ smartTitle = None
    /\ smartPc = "idle"
    /\ smartSearches = <<>>
    /\ smartFound = <<>>
    /\ smartFallbacks = 0
    /\ smartResult = <<>>

\* The search of the tier the title argument selects, and what follows it
\* at once: the return of the author tier, the return for no candidates of
\* the title tier, the except clause, or the call of
\* download_with_fallback(candidates, ...).
SmartSearch ==
    /\ smartPc = "start"
    /\ LET tier == IF Truthy(smartTitle) THEN "title_level" ELSE "author_level"
       IN /\ smartSearches' = Append(smartSearches, tier)
          /\ \E raised \in BOOLEAN : \E found \in FoundLists :
               IF raised
               THEN /\ found = <<>>
                    /\ smartFound' = <<>>
                    /\ smartResult' = SmartCaught("Not connected to IRC")
                    /\ smartPc' = "done"
                    /\ UNCHANGED <<smartFallbacks, candidates, fbPc>>
               ELSE /\ smartFound' = found
                    /\ IF tier = "title_level" /\ found # <<>>
                       THEN /\ candidates' = found
                            /\ fbPc' = "start"
                            /\ smartFallbacks' = smartFallbacks + 1
                            /\ smartPc' = "downloading"
                            /\ UNCHANGED smartResult
                       ELSE /\ smartResult' =
                                 IF tier = "title_level"
                                 THEN [success |-> FALSE, error |-> "No copies found",
                                       search_type |-> "title_level"]
                                 ELSE IF found # <<>>
                                 THEN [success |-> TRUE, search_type |-> "author_level",
                                       unique_books |-> found, total_found |-> Len(found)]
                                 ELSE [success |-> FALSE, error |-> "No books found",
                                       search_type |-> "author_level"]
                            /\ smartPc' = "done"
                            /\ UNCHANGED <<smartFallbacks, candidates, fbPc>>
    /\ UNCHANGED <<smartTitle, mainThread, fbTried, fbOutcomes, fbIssued, fbResult>>
    /\ UNCHANGED notSmart

\* download_with_fallback has returned: its dictionary, with search_type
\* and search_query set, is returned.
SmartReturn ==
    /\ smartPc = "downloading"
    /\ fbPc = "done"
    /\ smartResult' = Updated(fbResult, [search_type |-> "title_level"])
    /\ smartPc' = "done"
    /\ UNCHANGED <<smartTitle, smartSearches, smartFound, smartFallbacks>>
    /\ UNCHANGED fbVars
    /\ UNCHANGED notSmart

NextSmart ==
    \/ SmartSearch
    \/ FbStart
    \/ FbAttempt
    \/ SmartReturn

(***************************************************************************)
(* Text: a Python str is a sequence of one-character strings               *)
(***************************************************************************)

UpperCase == <<"A", "B", "C", "D", "E", "F", "G", "H", "I", "J", "K", "L", "M",
               "N", "O", "P", "Q", "R", "S", "T", "U", "V", "W", "X", "Y", "Z">>
LowerCase == <<"a", "b", "c", "d", "e", "f", "g", "h", "i", "j", "k", "l", "m",
               "n", "o", "p", "q", "r", "s", "t", "u", "v", "w", "x", "y", "z">>
Digits == <<"0", "1", "2", "3", "4", "5", "6", "7", "8", "9">>

\* The characters of the model's texts in the order of their code points.
CodePoints == <<" ", "(", ")", "-", ".">> \o Digits \o UpperCase
              \o <<"[", "]">> \o LowerCase

IndexIn(c, chars) == CHOOSE i \in DOMAIN chars : chars[i] = c
InSeq(c, chars) == \E i \in DOMAIN chars : chars[i] = c
Ord(c) == IndexIn(c, CodePoints)

\* str.lower() and str.upper()
LowerChar(c) == IF InSeq(c, UpperCase) THEN LowerCase[IndexIn(c, UpperCase)] ELSE c
UpperChar(c) == IF InSeq(c, LowerCase) THEN UpperCase[IndexIn(c, LowerCase)] ELSE c
Lower(str) == [i \in DOMAIN str |-> LowerChar(str[i])]
Upper(str) == [i \in DOMAIN str |-> UpperChar(str[i])]

IsSpace(c) == c = " "
IsDigit(c) == InSeq(c, Digits)

\* str[i:], counting from 1.
From(str, i) == SubSeq(str, i, Len(str))

\* str.startswith(prefix), and needle in hay.
StartsWithAt(str, i, prefix) ==
    /\ i + Len(prefix) - 1 <= Len(str)
    /\ SubSeq(str, i, i + Len(prefix) - 1) = prefix
StartsWith(str, prefix) == StartsWithAt(str, 1, prefix)
Contains(hay, needle) == \E i \in 1..(Len(hay) + 1) : StartsWithAt(hay, i, needle)

\* The first position from i on that holds no space (Len + 1 if none).
RECURSIVE SkipSpaces(_, _)
SkipSpaces(str, i) ==
    IF i <= Len(str) /\ IsSpace(str[i]) THEN SkipSpaces(str, i + 1) ELSE i

\* The first position from i on that holds no digit.
RECURSIVE SkipDigits(_, _)
SkipDigits(str, i) ==
    IF i <= Len(str) /\ IsDigit(str[i]) THEN SkipDigits(str, i + 1) ELSE i

\* str.strip()
RECURSIVE RStrip(_)
RStrip(str) ==
    IF str # <<>> /\ IsSpace(str[Len(str)]) THEN RStrip(SubSeq(str, 1, Len(str) - 1))
    ELSE str
Strip(str) == RStrip(From(str, SkipSpaces(str, 1)))

\* str.split(): the maximal runs of characters that are not spaces.
RECURSIVE WordEnd(_, _)
WordEnd(str, i) ==
    IF i <= Len(str) /\ ~IsSpace(str[i]) THEN WordEnd(str, i + 1) ELSE i
RECURSIVE SplitFrom(_, _)
SplitFrom(str, i) ==
    LET b == SkipSpaces(str, i)
        e == WordEnd(str, b)
    IN IF b > Len(str) THEN <<>>
       ELSE <<SubSeq(str, b, e - 1)>> \o SplitFrom(str, e)
Split(str) == SplitFrom(str, 1)

\* a < b and a <= b for str: by code points, a proper prefix first.
RECURSIVE Less(_, _)
Less(a, b) ==
    IF b = <<>> THEN FALSE
    ELSE IF a = <<>> THEN TRUE
    ELSE IF a[1] # b[1] THEN Ord(a[1]) < Ord(b[1])
    ELSE Less(Tail(a), Tail(b))

\* int(digits)
RECURSIVE ToInt(_)
ToInt(digits) ==
    IF digits = <<>> THEN 0
    ELSE 10 * ToInt(SubSeq(digits, 1, Len(digits) - 1))
         + (IndexIn(digits[Len(digits)], Digits) - 1)

(***************************************************************************)
(* IRCSession._normalize_title and _is_title_match                         *)
(***************************************************************************)

\* Where the match of X ends (the position after it) when X matches at q,
\* else 0, for the X of the three patterns \s*X\s* of _normalize_title:
\*   "paren"    \([^)]*\)      "bracket"  \[[^\]]*\]      "version"  v\d+
RECURSIVE Find(_, _, _)
Find(str, c, i) ==
    IF i > Len(str) THEN 0 ELSE IF str[i] = c THEN i ELSE Find(str, c, i + 1)

XEnd(kind, str, q) ==
    IF q > Len(str) THEN 0
    ELSE IF kind = "version"
    THEN IF str[q] = "v" /\ SkipDigits(str, q + 1) > q + 1
         THEN SkipDigits(str, q + 1) ELSE 0
    ELSE LET open == IF kind = "paren" THEN "(" ELSE "["
             close == IF kind = "paren" THEN ")" ELSE "]"
             e == Find(str, close, q + 1)
         IN IF str[q] = open /\ e > 0 THEN e + 1 ELSE 0

\* re.sub(pattern, " ", str, count) from position i on: the leftmost match
\* first, the next one sought after its end; count = 0 puts no limit, and
\* done counts the replacements made.
RECURSIVE ReSub(_, _, _, _, _)
ReSub(kind, str, i, count, done) ==
    IF i > Len(str) THEN <<>>
    ELSE IF count # 0 /\ done >= count THEN From(str, i)
    ELSE LET e == XEnd(kind, str, SkipSpaces(str, i))
         IN IF e > 0
            THEN <<" ">> \o ReSub(kind, str, SkipSpaces(str, e), count, done + 1)
            ELSE <<str[i]>> \o ReSub(kind, str, i + 1, count, done)

\* re.sub(r"\s+", " ", str)
RECURSIVE CollapseSpaces(_, _)
CollapseSpaces(str, i) ==
    IF i > Len(str) THEN <<>>
    ELSE IF IsSpace(str[i]) THEN <<" ">> \o CollapseSpaces(str, SkipSpaces(str, i))
    ELSE <<str[i]>> \o CollapseSpaces(str, i + 1)

\* The 4th positional argument of re.sub is count: the call passes
\* re.IGNORECASE there, whose value is 2.
IGNORECASE == 2

prefixes_to_remove == << <<"t", "h", "e", " ">>, <<"a", " ">>, <<"a", "n", " ">> >>

RECURSIVE RemovePrefixes(_, _)
RemovePrefixes(str, k) ==
    IF k > Len(prefixes_to_remove) THEN str
    ELSE RemovePrefixes(IF StartsWith(str, prefixes_to_remove[k])
                        THEN From(str, Len(prefixes_to_remove[k]) + 1)
                        ELSE str, k + 1)

NormalizeTitle(title) ==
    IF title = <<>> THEN <<>>
    ELSE LET lowered == Strip(Lower(title))
             bare == RemovePrefixes(lowered, 1)
             p == ReSub("paren", bare, 1, 0, 0)
             b == ReSub("bracket", p, 1, 0, 0)
             v == ReSub("version", b, 1, IGNORECASE, 0)
         IN Strip(CollapseSpaces(v, 1))

Range(f) == {f[i] : i \in DOMAIN f}

\* _is_title_match; the ratio overlap / total_unique >= 0.7 in whole
\* numbers.  (First a mutant that looks for the target in the candidate
\* only.)
IsTitleMatch_OneWay(target, candidate) ==
    IF target = <<>> \/ candidate = <<>> THEN FALSE
    ELSE IF target = candidate THEN TRUE
    ELSE Contains(candidate, target)
IsTitleMatch(target, candidate) ==
    IF target = <<>> \/ candidate = <<>> THEN FALSE
    ELSE IF target = candidate THEN TRUE
    ELSE IF Contains(candidate, target) \/ Contains(target, candidate) THEN TRUE
    ELSE LET target_words == Range(Split(target))
             candidate_words == Range(Split(candidate))
             overlap == Cardinality(target_words \cap candidate_words)
             total_unique == Cardinality(target_words \cup candidate_words)
         IN IF target_words = {} \/ candidate_words = {} THEN FALSE
            ELSE 10 * overlap >= 7 * total_unique

(***************************************************************************)
(* _is_title_match called both ways round on two normalized titles         *)
(***************************************************************************)

\* The longest title drawn letter by letter.
MaxTitleLen == 3

\* The titles: every text of up to MaxTitleLen characters over two letters
\* and the space that _normalize_title leaves as it is, and three longer
\* ones whose word sets overlap by 2 of 3 and by 3 of 4.
MatchTitles ==
    {t \in SeqsUpTo({"b", "c", " "}, MaxTitleLen) : NormalizeTitle(t) = t}
    \cup { <<"b", " ", "c", " ", "d">>,
           <<"c", " ", "b", " ", "d">>,
           <<"d", " ", "c", " ", "b", " ", "e">> }

InitMatch ==
    /\ matchTarget \in MatchTitles
    /\ matchCandidate \in MatchTitles
    /\ matchPc = "start"
    /\ matchForward = FALSE
    /\ matchBackward = FALSE

IdleMatch ==
    /\ matchTarget = <<>>
    /\ matchCandidate = <<>>
    /\ matchPc = "idle"
    /\ matchForward = FALSE
    /\ matchBackward = FALSE

MatchBothWays ==
    /\ matchPc = "start"
    /\ matchForward' = IsTitleMatch(matchTarget, matchCandidate)
    /\ matchBackward' = IsTitleMatch(matchCandidate, matchTarget)
    /\ matchPc' = "done"
    /\ UNCHANGED <<matchTarget, matchCandidate>>
    /\ UNCHANGED notMatch

NextMatch == MatchBothWays

(***************************************************************************)
(* IRCSession._calculate_candidate_score, _select_best_candidate and       *)
(* _rank_candidates                                                        *)
(***************************************************************************)

\* list.sort(key=...): stable, so an element comes after those that sort
\* before it and after the equal ones that stood before it.
SortedBy(seq, Before(_, _)) ==
    LET n == Len(seq)
        Rank(i) == 1 + Cardinality({j \in 1..n :
                        \/ Before(seq[j], seq[i])
                        \/ (~Before(seq[i], seq[j]) /\ j < i)})
    IN [k \in 1..n |-> seq[CHOOSE i \in 1..n : Rank(i) = k]]

RECURSIVE Pow10(_)
Pow10(e) == IF e = 0 THEN 1 ELSE 10 * Pow10(e - 1)

\* math.log10 of a power of ten.
RECURSIVE Log10(_)
Log10(n) == IF n < 10 THEN 0 ELSE 1 + Log10(n \div 10)

\* number * 10^exp >= a / b and > a, in whole numbers.
AtLeast(number, exp, a, b) ==
    IF exp >= 0 THEN number * Pow10(exp) * b >= a
    ELSE number * b >= a * Pow10(0 - exp)
MoreThan(number, exp, a) ==
    IF exp >= 0 THEN number * Pow10(exp) > a
    ELSE number > a * Pow10(0 - exp)

\* _parse_size_for_scoring for a size text whose number is a power of ten
\* without a decimal point (the logarithm is then a whole number): the
\* pattern (\d+(?:\.\d+)?)\s*([KMGT]?B?) on the upper-cased text, the size
\* in MB as number * 10^exp, ten times its logarithm (of 0.1 at least),
\* 20 more from 0.5 to 50 MB, 10 less above 100 MB, and 0 at least.
ParseSizeForScoring(size_str) ==
    IF size_str = <<>> THEN 0
    ELSE LET up == Upper(size_str)
             d == SkipDigits(up, 1)
             u == SkipSpaces(up, d)
             unit == IF u <= Len(up) /\ up[u] \in {"K", "M", "G", "T"}
                     THEN up[u] ELSE "B"
             exp == CASE unit = "K" -> 0 - 3
                      [] unit = "M" -> 0
                      [] unit = "G" -> 3
                      [] unit = "T" -> 6
                      [] OTHER -> 0 - 6
             number == ToInt(SubSeq(up, 1, d - 1))
             base_score == IF AtLeast(number, exp, 1, 10)
                           THEN 10 * (Log10(number) + exp)
                           ELSE 0 - 10
             bonus == IF AtLeast(number, exp, 1, 2) /\ ~MoreThan(number, exp, 50)
                      THEN 20
                      ELSE IF MoreThan(number, exp, 100) THEN 0 - 10
                      ELSE 0
         IN IF d = 1 THEN 0 ELSE Max(base_score + bonus, 0)

Text_v1 == <<"v", "1">>
Text_v2 == <<"v", "2">>
Text_v3 == <<"v", "3">>
Text_v4 == <<"v", "4">>
Text_v5 == <<"v", "5">>
Text_epub == <<"e", "p", "u", "b">>
Text_mobi == <<"m", "o", "b", "i">>
Text_azw3 == <<"a", "z", "w", "3">>
Text_pdf == <<"p", "d", "f">>
Text_txt == <<"t", "x", "t">>
Text_rar == <<"r", "a", "r">>
Text_zip == <<"z", "i", "p">>

quality_keywords ==
    { <<"r", "e", "t", "a", "i", "l">>, <<"f", "i", "n", "a", "l">>,
      <<"c", "o", "m", "p", "l", "e", "t", "e">>,
      <<"u", "n", "a", "b", "r", "i", "d", "g", "e", "d">>,
      <<"o", "r", "i", "g", "i", "n", "a", "l">> }

\* The version ladder.  (First a mutant that gives every marker on the
\* ladder the same.)
VersionScore_Flat(title) ==
    IF \E v \in {Text_v1, Text_v2, Text_v3, Text_v4, Text_v5} : Contains(title, v)
    THEN 100 ELSE 0
VersionScore(title) ==
    IF Contains(title, Text_v5) THEN 100
    ELSE IF Contains(title, Text_v4) THEN 80
    ELSE IF Contains(title, Text_v3) THEN 60
    ELSE IF Contains(title, Text_v2) THEN 40
    ELSE IF Contains(title, Text_v1) THEN 20
    ELSE 0

FormatScore(format_type) ==
    CASE format_type = Text_epub -> 30
      [] format_type = Text_mobi -> 20
      [] format_type = Text_azw3 -> 15
      [] format_type = Text_pdf -> 10
      [] format_type = Text_txt -> 5
      [] OTHER -> 0

\* _calculate_candidate_score, in half points (twice the float the code
\* computes), so that size_score * 0.5 is a whole number.
CalculateCandidateScore(candidate, search_type) ==
    LET title == Lower(candidate.title)
        size_score == ParseSizeForScoring(candidate.size)
        quality == IF \E keyword \in quality_keywords : Contains(title, keyword)
                   THEN 25 ELSE 0
        author_bonus == IF search_type = "author" /\ Contains(title, Text_v5)
                        THEN 50 ELSE 0
        title_bonus == IF search_type = "title" THEN size_score ELSE 0
    IN 2 * (VersionScore(title) + size_score + FormatScore(Lower(candidate.format))
            + quality + author_bonus) + title_bonus

\* _rank_candidates: sort by score, highest first.
RankCandidates(cands, search_type) ==
    SortedBy(cands, LAMBDA a, b : CalculateCandidateScore(a, search_type)
                                   > CalculateCandidateScore(b, search_type))

\* _select_best_candidate: None for no candidates, the only one, or the
\* first after the sort.  (First a mutant that takes the last.)
SelectBestCandidate_Last(cands, search_type) ==
    IF cands = <<>> THEN None
    ELSE RankCandidates(cands, search_type)[Len(cands)]
SelectBestCandidate(cands, search_type) ==
    IF cands = <<>> THEN None
    ELSE IF Len(cands) = 1 THEN cands[1]
    ELSE RankCandidates(cands, search_type)[1]

(***************************************************************************)
(* SearchResultParser.filter_results, and search_books, search_author_level *)
(* and search_title_level from the parsed records on                       *)
(***************************************************************************)

\* seq[:n]
Take(seq, n) == SubSeq(seq, 1, Min(n, Len(seq)))

ARCHIVE_EXTENSIONS == {Text_rar, Text_zip}

format_priority(format) ==
    CASE format = Text_epub -> 1
      [] format = Text_mobi -> 2
      [] format = Text_azw3 -> 3
      [] format = Text_pdf -> 4
      [] format = Text_txt -> 5
      [] OTHER -> 6

\* sort_key(a) < sort_key(b): tuples compare item by item.
SortKeyLess(a, b) ==
    \/ format_priority(a.format) < format_priority(b.format)
    \/ /\ format_priority(a.format) = format_priority(b.format)
       /\ \/ Less(Lower(a.author), Lower(b.author))
          \/ /\ Lower(a.author) = Lower(b.author)
             /\ Less(Lower(a.title), Lower(b.title))

\* filter_results(results, author_filter=...): the author filter (a record
\* stays when the filter text is found in its author or in its title), the
\* quality filter (archives only when there is nothing else), the sort.
AuthorFilter(results, author_filter) ==
    IF author_filter = <<>> THEN results
    ELSE SelectSeq(results, LAMBDA r :
            \/ Contains(Lower(r.author), Lower(author_filter))
            \/ Contains(Lower(r.title), Lower(author_filter)))

FilterResults(results, author_filter) ==
    LET filtered == AuthorFilter(results, author_filter)
        non_archives == SelectSeq(filtered, LAMBDA r : r.format \notin ARCHIVE_EXTENSIONS)
        archives == SelectSeq(filtered, LAMBDA r : r.format \in ARCHIVE_EXTENSIONS)
    IN SortedBy(IF non_archives # <<>> THEN non_archives ELSE archives, SortKeyLess)

\* search_books from the records parse_search_results gave: the filter
\* with f"{author} {title}".strip() or with the author, the cut to
\* max_results.  No title is the empty text.
FilterTerm(author, title) ==
    IF title # <<>> THEN Strip(author \o <<" ">> \o title) ELSE author

SearchBooks(books, author, title, max_results) ==
    Take(IF author # <<>> \/ title # <<>>
         THEN FilterResults(books, FilterTerm(author, title))
         ELSE books,
         max_results)

\* The keys of a dictionary filled in the order of seq: each key once, in
\* the order of its first appearance.
RECURSIVE KeysInOrder(_)
KeysInOrder(keys) ==
    IF keys = <<>> THEN <<>>
    ELSE LET front == KeysInOrder(SubSeq(keys, 1, Len(keys) - 1))
             last == keys[Len(keys)]
         IN IF last \in Range(front) THEN front ELSE Append(front, last)

\* What _select_best_candidate returns for no candidates.
NoCandidate == [none |-> TRUE]

\* Lines 1549-1564: group by normalized title, take the best of each group
\* (a mutant of the selection: the single candidate of a group is not
\* taken).
BestOf_NoSingle(cands, search_type) ==
    IF Len(cands) <= 1 THEN NoCandidate
    ELSE RankCandidates(cands, search_type)[1]
BestOf(cands, search_type) ==
    IF cands = <<>> THEN NoCandidate ELSE SelectBestCandidate(cands, search_type)

BestPerTitle(results) ==
    LET title_keys == KeysInOrder([i \in DOMAIN results |-> NormalizeTitle(results[i].title)])
        best == [k \in DOMAIN title_keys |->
                    BestOf(SelectSeq(results, LAMBDA r :
                               NormalizeTitle(r.title) = title_keys[k]), "author")]
    IN SelectSeq(best, LAMBDA c : c # NoCandidate)

\* search_author_level
SearchAuthorLevel(books, author, max_results) ==
    LET all_results == SearchBooks(books, author, <<>>, max_results * 2)
    IN IF all_results = <<>> THEN <<>>
       ELSE Take(SortedBy(BestPerTitle(all_results),
                          LAMBDA a, b : Less(a.title, b.title)),
                 max_results)

\* Lines 1594-1601: the results whose normalized title matches the target.
ExactMatches(all_results, title) ==
    SelectSeq(all_results, LAMBDA r :
        IsTitleMatch(NormalizeTitle(title), NormalizeTitle(r.title)))

\* Lines 1609-1625: group by server, take the best of each, rank.
BestPerServer(exact_matches) ==
    LET servers == KeysInOrder([i \in DOMAIN exact_matches |-> exact_matches[i].server])
        best == [k \in DOMAIN servers |->
                    BestOf(SelectSeq(exact_matches, LAMBDA r : r.server = servers[k]),
                           "title")]
    IN RankCandidates(SelectSeq(best, LAMBDA c : c # NoCandidate), "title")

\* search_title_level
SearchTitleLevel(books, author, title, max_results) ==
    LET all_results == SearchBooks(books, author, title, max_results * 3)
        exact_matches == ExactMatches(all_results, title)
    IN IF all_results = <<>> \/ exact_matches = <<>> THEN <<>>
       ELSE Take(BestPerServer(exact_matches), max_results)

Text_Jo == <<"J", "o">>
Text_Ox == <<"O", "x">>
BookPool ==
    { [server |-> "Ook", author |-> <<"J", "o">>,
       title |-> <<"O", "x">>,
       format |-> Text_epub, size |-> <<"1", "M", "B">>],
      [server |-> "Ook", author |-> <<"J", "o", " ", "O", "x">>,
       title |-> <<"O", "x", " ", "v", "5">>,
       format |-> Text_epub, size |-> <<"1", "M", "B">>],
      [server |-> "DV8", author |-> <<"J", "o", " ", "O", "x">>,
       title |-> <<"O", "x", " ", "v", "6">>,
       format |-> Text_epub, size |-> <<"1", "M", "B">>],
      [server |-> "DV8", author |-> <<"J", "o", " ", "O", "x">>,
       title |-> <<"O", "x", " ", "v", "4">>,
       format |-> Text_epub, size |-> <<"1", "M", "B">>],
      [server |-> "Bsk", author |-> <<"J", "o">>,
       title |-> <<"J", "o", " ", "O", "x", " ", "(", "r", "e", "t", "a", "i", "l", ")">>,
       format |-> Text_mobi, size |-> <<"1", "0", "M", "B">>],
      [server |-> "Bsk", author |-> <<"J", "o">>,
       title |-> <<"T", "h", "e", " ", "O", "x">>,
       format |-> Text_rar, size |-> <<"U", "n", "k", "n", "o", "w", "n">>],
      [server |-> "Ook", author |-> <<"J", "o">>,
       title |-> <<"E", "m", "u">>,
       format |-> Text_pdf, size |-> <<"1", "G", "B">>] }

\* How many records the parser made, at most; the values of max_results.
MaxBooks == 3
MaxResultsChoices == {1, 20}

InitSearch ==
    /\ searchAuthor = Text_Jo
    /\ searchTitle \in {<<>>, Text_Ox}
    /\ searchMax \in MaxResultsChoices
    /\ parsedBooks \in SeqsUpTo(BookPool, MaxBooks)
    /\ searchPc = "start"
    /\ searchReturned = <<>>
    /\ searchAgain = <<>>

IdleSearch ==
    /\ searchAuthor = <<>>
    /\ searchTitle = <<>>
    /\ searchMax = 0
    /\ parsedBooks = <<>>
    /\ searchPc = "idle"
    /\ searchReturned = <<>>
    /\ searchAgain = <<>>

\* search_author_level(author, max_results) on a connected session.
AuthorLevelCall ==
    /\ searchPc = "start"
    /\ searchTitle = <<>>
    /\ searchReturned' = SearchAuthorLevel(parsedBooks, searchAuthor, searchMax)
    /\ searchPc' = "returned"
    /\ UNCHANGED <<searchAuthor, searchTitle, searchMax, parsedBooks, searchAgain>>
    /\ UNCHANGED notSearch

\* search_title_level(author, title, max_results) on a connected session.
TitleLevelCall ==
    /\ searchPc = "start"
    /\ searchTitle # <<>>
    /\ searchReturned' = SearchTitleLevel(parsedBooks, searchAuthor, searchTitle, searchMax)
    /\ searchPc' = "returned"
    /\ UNCHANGED <<searchAuthor, searchTitle, searchMax, parsedBooks, searchAgain>>
    /\ UNCHANGED notSearch

\* The grouping and selection of search_author_level once more, over the
\* list it returned.
BestPerTitleAgain ==
    /\ searchPc = "returned"
    /\ searchTitle = <<>>
    /\ searchAgain' = BestPerTitle(searchReturned)
    /\ searchPc' = "reranked"
    /\ UNCHANGED <<searchAuthor, searchTitle, searchMax, parsedBooks, searchReturned>>
    /\ UNCHANGED notSearch

NextSearch ==
    \/ AuthorLevelCall
    \/ TitleLevelCall
    \/ BestPerTitleAgain

(***************************************************************************)
(* _select_best_candidate on candidates that differ in their version       *)
(* marker only                                                             *)
(***************************************************************************)

\* How many candidates the list holds, at most.
MaxVersions == 3

Text_Book == <<"B", "o", "o", "k">>
VersionText(v) == <<"v">> \o <<Digits[v + 1]>>

\* What the candidates of one list have in common: format and size.
CommonAttrs ==
    { [format |-> Text_epub, size |-> <<"1", "M", "B">>],
      [format |-> Text_pdf, size |-> <<"1", "G", "B">>],
      [format |-> Text_rar, size |-> <<"U", "n", "k", "n", "o", "w", "n">>] }

VersionCandidate(v, common) ==
    [title |-> Text_Book \o <<" ">> \o VersionText(v),
     size |-> common.size, format |-> common.format]

InitSelect ==
    /\ \E common \in CommonAttrs :
         \E versions \in SeqsUpTo(1..5, MaxVersions) \ {<<>>} :
            selCands = [i \in DOMAIN versions |-> VersionCandidate(versions[i], common)]
    /\ selType \in {"author", "title"}
    /\ selPc = "start"
    /\ selBest = <<>>

IdleSelect ==
    /\ selCands = <<>>
    /\ selType = ""
    /\ selPc = "idle"
    /\ selBest = <<>>

SelectCall ==
    /\ selPc = "start"
    /\ selBest' = SelectBestCandidate(selCands, selType)
    /\ selPc' = "done"
    /\ UNCHANGED <<selCands, selType>>
    /\ UNCHANGED notSel

NextSelect == SelectCall

(***************************************************************************)
(* The offer codec of dcc.py: _int_to_ip and parse_dcc_string              *)
(***************************************************************************)

\* A Python integer n >= 0, kept in two parts: n = hi * 2^16 + lo with lo
\* below 2^16.  It fits in 32 bits when hi is below 2^16 too.
Half == 65536
Wide(hi, lo) == [hi |-> hi, lo |-> lo]
Fits32(n) == n.hi < Half

\* str(k) for k >= 0.
RECURSIVE Decimal(_)
Decimal(k) ==
    IF k < 10 THEN <<Digits[k + 1]>>
    ELSE Decimal(k \div 10) \o <<Digits[(k % 10) + 1]>>

\* sep.join(parts)
RECURSIVE JoinWith(_, _)
JoinWith(parts, sep) ==
    IF parts = <<>> THEN <<>>
    ELSE IF Len(parts) = 1 THEN parts[1]
    ELSE parts[1] \o sep \o JoinWith(Tail(parts), sep)

\* str.split(c) for a single character c.
RECURSIVE SplitOn(_, _)
SplitOn(str, c) ==
    LET i == Find(str, c, 1)
    IN IF i = 0 THEN <<str>>
       ELSE <<SubSeq(str, 1, i - 1)>> \o SplitOn(From(str, i + 1), c)

\* struct.pack("!I", ip_int): the four bytes, most significant first; a
\* struct.error when the integer does not fit.  (First a mutant that packs
\* the least significant byte first.)
Pack_LittleEndian(n) ==
    <<n.lo % 256, n.lo \div 256, n.hi % 256, n.hi \div 256>>
Pack(n) ==
    <<n.hi \div 256, n.hi % 256, n.lo \div 256, n.lo % 256>>

\* socket.inet_ntoa(packed)
InetNtoa(packed) ==
    JoinWith([i \in DOMAIN packed |-> Decimal(packed[i])], <<".">>)

Text_0000 == <<"0", ".", "0", ".", "0", ".", "0">>

\* How a call ends: with a value, or with an exception on its way out.
Returns(v) == [raised |-> "", value |-> v]
Raises(e) == [raised |-> e, value |-> <<>>]

\* _int_to_ip: the try block, and the exceptions its except clause names.
\* (First a mutant whose except clause names another exception.)
IntToIpTry(ip_int) ==
    IF Fits32(ip_int) THEN Returns(InetNtoa(Pack(ip_int))) ELSE Raises("struct.error")
IntToIpExcept_Other == {"ValueError"}
IntToIpExcept == {"struct.error", "socket.error"}
IntToIp(ip_int) ==
    IF IntToIpTry(ip_int).raised \in IntToIpExcept
    THEN Returns(Text_0000)
    ELSE IntToIpTry(ip_int)

\* The way back: the integer a dotted quad stands for.
IpToInt(ip) ==
    LET octets == [i \in 1..4 |-> ToInt(SplitOn(ip, ".")[i])]
    IN Wide(octets[1] * 256 + octets[2], octets[3] * 256 + octets[4])

\* The values an octet of the address takes in the model: one, two and
\* three digits, the least and the greatest.
OctetSamples == {0, 1, 9, 10, 99, 100, 168, 192, 255}

InitAddr ==
    /\ \E a, b, c, d \in OctetSamples : addrInt = Wide(a * 256 + b, c * 256 + d)
    /\ addrPc = "start"
    /\ addrText = <<>>
    /\ addrAgain = <<>>

IdleAddr ==
    /\ addrInt = Wide(0, 0)
    /\ addrPc = "idle"
    /\ addrText = <<>>
    /\ addrAgain = <<>>

IntToIpCall ==
    /\ addrPc = "start"
    /\ addrText' = IntToIp(addrInt).value
    /\ addrPc' = "decoded"
    /\ UNCHANGED <<addrInt, addrAgain>>
    /\ UNCHANGED notAddr

EncodeAndDecodeAgain ==
    /\ addrPc = "decoded"
    /\ addrAgain' = IntToIp(IpToInt(addrText)).value
    /\ addrPc' = "again"
    /\ UNCHANGED <<addrInt, addrText>>
    /\ UNCHANGED notAddr

NextAddr ==
    \/ IntToIpCall
    \/ EncodeAndDecodeAgain

\* int(digits) of any length, in two parts.
RECURSIVE ToWide(_)
ToWide(digits) ==
    IF digits = <<>> THEN Wide(0, 0)
    ELSE LET front == ToWide(SubSeq(digits, 1, Len(digits) - 1))
             low == front.lo * 10 + (IndexIn(digits[Len(digits)], Digits) - 1)
         IN Wide(front.hi * 10 + low \div Half, low % Half)

\* DCC_REGEX: DCC SEND "?(.+[^"])"?\s+(\d+)\s+(\d+)\s+(\d+)\s*
Text_DCC_SEND == <<"D", "C", "C", " ", "S", "E", "N", "D", " ">>
Quote == "\""
NoMatch == [matched |-> FALSE, filename |-> <<>>, ip |-> <<>>, port |-> <<>>,
            size |-> <<>>]

\* What follows group 1 from position j on: "?\s+(\d+)\s+(\d+)\s+(\d+).
\* White space and digits exclude each other, so each greedy run has one
\* way to match only.
TailAt(text, j) ==
    LET j1 == IF j <= Len(text) /\ text[j] = Quote THEN j + 1 ELSE j
        w1 == SkipSpaces(text, j1)
        d1 == SkipDigits(text, w1)
        w2 == SkipSpaces(text, d1)
        d2 == SkipDigits(text, w2)
        w3 == SkipSpaces(text, d2)
        d3 == SkipDigits(text, w3)
    IN IF w1 > j1 /\ d1 > w1 /\ w2 > d1 /\ d2 > w2 /\ w3 > d2 /\ d3 > w3
       THEN [NoMatch EXCEPT !.matched = TRUE,
                            !.ip = SubSeq(text, w1, d1 - 1),
                            !.port = SubSeq(text, w2, d2 - 1),
                            !.size = SubSeq(text, w3, d3 - 1)]
       ELSE NoMatch

\* Group 1, .+[^"], from position a on: greedy, so the last position e at
\* which it may end (at least two characters, the last one no quote) with
\* the rest of the pattern matching after it; 0 if there is none.
GroupEnd(text, a) ==
    LET ends == {e \in (a + 1)..Len(text) :
                    text[e] # Quote /\ TailAt(text, e + 1).matched}
    IN IF ends = {} THEN 0 ELSE CHOOSE e \in ends : \A f \in ends : f <= e

\* The match that starts at position s: the optional quote is taken when
\* that leads to a match, and left to group 1 otherwise.
MatchAt(text, s) ==
    IF ~StartsWithAt(text, s, Text_DCC_SEND) THEN NoMatch
    ELSE LET p == s + Len(Text_DCC_SEND)
             quoted == IF p <= Len(text) /\ text[p] = Quote
                       THEN GroupEnd(text, p + 1) ELSE 0
             bare == GroupEnd(text, p)
         IN IF quoted > 0
            THEN [TailAt(text, quoted + 1) EXCEPT !.filename = SubSeq(text, p + 1, quoted)]
            ELSE IF bare > 0
            THEN [TailAt(text, bare + 1) EXCEPT !.filename = SubSeq(text, p, bare)]
            ELSE NoMatch

\* DCC_REGEX.search(text): the match at the leftmost position that has one.
DccSearch(text) ==
    LET starts == {s \in DOMAIN text : MatchAt(text, s).matched}
    IN IF starts = {} THEN NoMatch
       ELSE MatchAt(text, CHOOSE s \in starts : \A t \in starts : s <= t)

\* What parse_dcc_string returns for no offer.
NoOffer == [none |-> TRUE]

\* parse_dcc_string: its except clause names ValueError and IndexError.
ParseDccExcept == {"ValueError", "IndexError"}
ParseDccString(text) ==
    LET match == DccSearch(text)
        ip == IntToIp(ToWide(match.ip))
    IN IF ~match.matched THEN Returns(NoOffer)
       ELSE IF ip.raised \in ParseDccExcept THEN Returns(NoOffer)
       ELSE IF ip.raised # "" THEN Raises(ip.raised)
       ELSE Returns([filename |-> match.filename, ip |-> ip.value,
                     port |-> match.port, size |-> ToWide(match.size),
                     raw_line |-> text])

\* The lines the model hands to the parser: an offer put together of its
\* parts, each of which may be well formed or not.
OfferPrefixes == { <<>>, <<"x", " ">> }
OfferHeads == { Text_DCC_SEND, <<"D", "C", "C", " ", "S", "E", "N", "D">>,
                <<"D", "C", "C", " ">> }
OfferNames == { <<"a", "b">>, <<Quote, "a", "b", Quote>>, <<Quote, "a", " ", "b", Quote>>,
                <<"a">>, <<Quote, Quote>>, <<"a", Quote>>, <<>> }
OfferAddresses == { <<"3", "2", "3", "2", "2", "3", "5", "7", "7", "7">>,
                    <<"4", "2", "9", "4", "9", "6", "7", "2", "9", "5">>,
                    <<"4", "2", "9", "4", "9", "6", "7", "2", "9", "6">>,
                    <<"4", "2", "9", "4", "9", "6", "7", "2", "9", "5", "0">>,
                    <<"1">>, <<"x">>, <<>> }
OfferPorts == { <<"2">>, <<>> }
OfferSizes == { <<"3">>, <<"x">>, <<>> }
OfferSuffixes == { <<>>, <<" ">>, <<"x">>, <<" ", "4">> }
Spaces == { <<" ">>, <<>> }

OfferLines ==
    { prefix \o head \o name \o space \o address \o <<" ">> \o port \o <<" ">>
        \o size \o suffix :
      prefix \in OfferPrefixes, head \in OfferHeads, name \in OfferNames,
      space \in Spaces, address \in OfferAddresses, port \in OfferPorts,
      size \in OfferSizes, suffix \in OfferSuffixes }

InitOffer ==
    /\ offerLine \in OfferLines
    /\ offerPc = "start"
    /\ offerResult = Returns(NoOffer)

IdleOffer ==
    /\ offerLine = <<>>
    /\ offerPc = "idle"
    /\ offerResult = Returns(NoOffer)

ParseDccCall ==
    /\ offerPc = "start"
    /\ offerResult' = ParseDccString(offerLine)
    /\ offerPc' = "done"
    /\ UNCHANGED offerLine
    /\ UNCHANGED notOffer

NextOffer == ParseDccCall

(***************************************************************************)
(* The result parser of search_parser.py                                   *)
(***************************************************************************)

Text_html == <<"h", "t", "m", "l">>
Text_rtf == <<"r", "t", "f">>
Text_cdr == <<"c", "d", "r">>
Text_lit == <<"l", "i", "t">>
Text_cbr == <<"c", "b", "r">>
Text_doc == <<"d", "o", "c">>
Text_htm == <<"h", "t", "m">>
Text_jpg == <<"j", "p", "g">>

FILE_TYPES ==
    <<Text_epub, Text_mobi, Text_azw3, Text_html, Text_rtf, Text_pdf, Text_cdr, Text_lit,
      Text_cbr, Text_doc, Text_htm, Text_jpg, Text_txt, Text_rar, Text_zip>>

Text_INFO == <<":", ":", "I", "N", "F", "O", ":", ":">>
Text_Unknown == <<"U", "n", "k", "n", "o", "w", "n">>
Text_unknown == Lower(Text_Unknown)
Dash == <<" ", "-", " ">>

\* str.find(needle) + 1: where needle first starts in hay, 0 if nowhere.
FindText(hay, needle) ==
    IF Contains(hay, needle)
    THEN CHOOSE i \in 1..(Len(hay) + 1) :
            /\ StartsWithAt(hay, i, needle)
            /\ \A j \in 1..(i - 1) : ~StartsWithAt(hay, j, needle)
    ELSE 0

\* str.split(sep, 1) where sep occurs: what stands before and after it.
TextBefore(str, sep) == SubSeq(str, 1, FindText(str, sep) - 1)
TextAfter(str, sep) == From(str, FindText(str, sep) + Len(sep))

\* _is_book_line
IsBookLine(line) ==
    /\ StartsWith(line, <<"!">>)
    /\ \E k \in DOMAIN FILE_TYPES : Contains(Lower(line), <<".">> \o FILE_TYPES[k])

\* _extract_author_title_format.  The first extension of FILE_TYPES that
\* occurs in the content with its dot, in either case, ends the title where
\* it first stands; for an archive the format is the first other extension
\* whose letters occur in the content at all.
InnerFormats(content) ==
    {k \in 1..(Len(FILE_TYPES) - 2) : Contains(Lower(content), FILE_TYPES[k])}
Least(S) == CHOOSE k \in S : \A j \in S : k <= j
ExtractAuthorTitleFormat(content) ==
    LET found == {k \in DOMAIN FILE_TYPES :
                     Contains(Lower(content), <<".">> \o FILE_TYPES[k])}
        ext == FILE_TYPES[Least(found)]
        file_format ==
            IF found = {} THEN Text_unknown
            ELSE IF ext \in {Text_rar, Text_zip} /\ InnerFormats(content) # {}
            THEN FILE_TYPES[Least(InnerFormats(content))]
            ELSE ext
        title_end_pos ==
            IF found = {} THEN Len(content)
            ELSE FindText(Lower(content), <<".">> \o ext) - 1
        title_content == Strip(SubSeq(content, 1, title_end_pos))
        words == Split(title_content)
        author ==
            IF Contains(title_content, Dash) THEN Strip(TextBefore(title_content, Dash))
            ELSE IF Len(words) > 2 THEN JoinWith(SubSeq(words, 1, 2), <<" ">>)
            ELSE Text_Unknown
        title ==
            IF Contains(title_content, Dash) THEN Strip(TextAfter(title_content, Dash))
            ELSE IF Len(words) > 2 THEN JoinWith(SubSeq(words, 3, Len(words)), <<" ">>)
            ELSE title_content
    IN [author |-> author,
        title |-> Strip(ReSub("paren", title, 1, 0, 0)),
        format |-> file_format]

\* What a parser returns for no record.
NoRecord == [none |-> TRUE]

BookDetail(server, fields, size, full_command, raw_line) ==
    [server |-> server, author |-> fields.author, title |-> fields.title,
     format |-> fields.format, size |-> size, full_command |-> full_command,
     raw_line |-> raw_line]

\* _parse_info_format
ParseInfoFormat(line) ==
    LET main_part == Strip(TextBefore(line, Text_INFO))
        parts == Split(main_part)
    IN IF ~Contains(line, Text_INFO) THEN NoRecord
       ELSE IF Len(parts) < 2 THEN NoRecord
       ELSE BookDetail(Tail(parts[1]),
                       ExtractAuthorTitleFormat(JoinWith(Tail(parts), <<" ">>)),
                       Strip(TextAfter(line, Text_INFO)), main_part, line)

\* _parse_standard_format
ParseStandardFormat(line) ==
    LET parts == Split(line)
    IN IF Len(parts) < 2 THEN NoRecord
       ELSE BookDetail(Tail(parts[1]),
                       ExtractAuthorTitleFormat(JoinWith(Tail(parts), <<" ">>)),
                       Text_Unknown, Strip(line), line)

\* _parse_simple_format
ParseSimpleFormat(line) ==
    LET parts == Split(line)
        content == JoinWith(Tail(parts), <<" ">>)
        found == {k \in DOMAIN FILE_TYPES :
                     Contains(Lower(content), <<".">> \o FILE_TYPES[k])}
    IN IF Len(parts) < 2 THEN NoRecord
       ELSE BookDetail(Tail(parts[1]),
                       [author |-> Text_Unknown, title |-> content,
                        format |-> IF found = {} THEN Text_unknown
                                   ELSE FILE_TYPES[Least(found)]],
                       Text_Unknown, Strip(line), line)

\* parse_line: the first of the three parsers that gives a record.
ParseLine(line) ==
    IF ~IsBookLine(line) THEN NoRecord
    ELSE IF ParseInfoFormat(line) # NoRecord THEN ParseInfoFormat(line)
    ELSE IF ParseStandardFormat(line) # NoRecord THEN ParseStandardFormat(line)
    ELSE ParseSimpleFormat(line)

\* parse_search_results: the loop over the lines.  parse_line lets no
\* exception out, so the except clause of the loop has nothing to record.
\* (First a mutant that puts each new record in front.)
Collected_InFront(results, book_detail) == <<book_detail>> \o results
Collected(results, book_detail) == Append(results, book_detail)
RECURSIVE ParseLoop(_, _)
ParseLoop(text_lines, results) ==
    IF text_lines = <<>> THEN results
    ELSE LET line == Strip(Head(text_lines))
         IN IF line = <<>> THEN ParseLoop(Tail(text_lines), results)
            ELSE IF ParseLine(line) = NoRecord
            THEN ParseLoop(Tail(text_lines), results)
            ELSE ParseLoop(Tail(text_lines), Collected(results, ParseLine(line)))
ParseSearchResults(text_lines) ==
    Returns([results |-> ParseLoop(text_lines, <<>>), errors |-> <<>>])

\* A bot line of the form !<tag> <author> - <title>.<ext> ::INFO:: <size>.
InfoLine(tag, author, title, ext, size) ==
    <<"!">> \o tag \o <<" ">> \o author \o Dash \o title \o <<".">> \o ext
        \o <<" ">> \o Text_INFO \o <<" ">> \o size

FormTags ==
    { <<"O", "o", "k">> }
FormAuthors ==
    { <<"J", "o", " ", "O", "x">>,
      <<"F", " ", "S", "c", "o", "t", "t", " ", "F", "i", "t", "z", "g", "e", "r", "a", "l", "d">> }
FormTitles ==
    { <<"O", "x">>,
      <<"L", "i", "t", "t", "l", "e", " ", "E", "m", "u">>,
      <<"T", "h", "e", " ", "G", "r", "e", "a", "t", " ", "G", "a", "t", "s", "b", "y">> }
FormExts == {Text_epub, Text_pdf, Text_rar}
FormSizes ==
    { <<"1", "M", "B">>,
      <<"3", "3", "2", ".", "7", "K", "B">> }

FormLines ==
    { InfoLine(tag, author, title, ext, size) :
        tag \in FormTags, author \in FormAuthors, title \in FormTitles,
        ext \in FormExts, size \in FormSizes }

\* Other lines a bot or the server may send: short fields, no separator,
\* extensions outside the list, upper case, remarks in parentheses.
OddLines ==
    { <<"!", "O", "o", "k", " ", "A", " ", "-", " ", "B", ".", "e", "p", "u", "b">>,
      <<"!", "O", "o", "k", " ", "B", ".", "e", "p", "u", "b">>,
      <<"!", "O", "o", "k", " ", "J", "o", " ", "O", "x", " ", "-", " ", "E", "m", "u", ".", "j", "p", "g", " ", ":", ":", "I", "N", "F", "O", ":", ":", " ", "1", "M", "B">>,
      <<"!", "x", ".", "e", "p", "u", "b", " ", "J", "o", " ", "-", " ", "O", "x", " ", ":", ":", "I", "N", "F", "O", ":", ":", " ", "1", "M", "B">>,
      <<"!", "O", "o", "k", " ", "J", "o", " ", "O", "x", " ", "-", " ", "E", "m", "u", ".", "d", "j", "v", "u", " ", ":", ":", "I", "N", "F", "O", ":", ":", " ", "1", "M", "B">>,
      <<"!", "O", "o", "k", " ", "J", "o", " ", "O", "x", " ", "-", " ", "O", "x", " ", "(", "r", "e", "t", "a", "i", "l", ")", ".", "E", "P", "U", "B", " ", " ", ":", ":", "I", "N", "F", "O", ":", ":", " ", "1", "M", "B">>,
      <<"!", "O", "o", "k", " ", "J", "o", " ", "O", "x", " ", "E", "m", "u", ".", "e", "p", "u", "b">>,
      <<"!", "O", "o", "k", " ", "J", "o", " ", "O", "x", " ", "E", "m", "u", " ", "T", "w", "o", ".", "e", "p", "u", "b">>,
      <<"!", "O", "o", "k", " ", "J", "o", " ", "-", " ", "O", "x", ".", "r", "t", "f", ".", "z", "i", "p", " ", ":", ":", "I", "N", "F", "O", ":", ":">>,
      <<"O", "o", "k", " ", "J", "o", " ", "O", "x", " ", "-", " ", "E", "m", "u", ".", "e", "p", "u", "b", " ", ":", ":", "I", "N", "F", "O", ":", ":", " ", "1", "M", "B">>,
      <<"!", "O", "o", "k", ".", "e", "p", "u", "b">> }

\* The lines of the longer lists: blank ones, lines that are no results,
\* and results.
ListLines ==
    { <<>>,
      <<" ", " ">>,
      <<"j", "u", "n", "k">>,
      <<"!", "b", "a", "d">>,
      <<"!", "O", "o", "k", " ", "J", "o", " ", "O", "x", " ", "-", " ", "E", "m", "u", ".", "e", "p", "u", "b", " ", ":", ":", "I", "N", "F", "O", ":", ":", " ", "1", "M", "B">>,
      <<"!", "D", "V", "8", " ", "J", "o", " ", "O", "x", " ", "-", " ", "O", "x", ".", "p", "d", "f">>,
      <<" ", " ", "!", "O", "o", "k", " ", "A", " ", "-", " ", "B", ".", "e", "p", "u", "b", " ", " ">> }

\* How many lines a longer list holds, at most.
MaxParsedLines == 3

InitParse ==
    /\ parseLines \in {<<line>> : line \in FormLines \cup OddLines}
                      \cup SeqsUpTo(ListLines, MaxParsedLines)
    /\ parsePc = "start"
    /\ parseOutcome = Returns([results |-> <<>>, errors |-> <<>>])

IdleParse ==
    /\ parseLines = <<>>
    /\ parsePc = "idle"
    /\ parseOutcome = Returns([results |-> <<>>, errors |-> <<>>])

ParseSearchResultsCall ==
    /\ parsePc = "start"
    /\ parseOutcome' = ParseSearchResults(parseLines)
    /\ parsePc' = "done"
    /\ UNCHANGED parseLines
    /\ UNCHANGED notParse

NextParse == ParseSearchResultsCall

(***************************************************************************)
(* IRCSession._extract_zip                                                 *)
(***************************************************************************)

\* str.endswith(suffix)
EndsWith(str, suffix) ==
    /\ Len(suffix) <= Len(str)
    /\ SubSeq(str, Len(str) - Len(suffix) + 1, Len(str)) = suffix

\* The suffixes of the three passes over the names of the archive.
text_suffixes == { <<".", "t", "x", "t">>, <<".", "l", "o", "g">>, <<".", "l", "i", "s", "t">>, <<".", "d", "a", "t">> }
ebook_extensions ==
    { <<".", "m", "o", "b", "i">>, <<".", "a", "z", "w", "3">>, <<".", "p", "d", "f">>,
      <<".", "r", "t", "f">>, <<".", "l", "i", "t">>, <<".", "h", "t", "m", "l">> }

\* os.path.join(extract_dir, name), and the entry made of a parsed listing.
Text_extract_dir == <<"x", "_", "e", "x", "t", "r", "a", "c", "t", "e", "d">>
ExtractedPath(name) == Text_extract_dir \o <<"/">> \o name
Text_PARSED_BOOK == <<"P", "A", "R", "S", "E", "D", "_", "B", "O", "O", "K", ":">>

\* The loop that extracts the chosen members: a member whose extraction
\* raises is left out.
Extracted(chosen, broken) ==
    LET done == SelectSeq(chosen, LAMBDA name : name \notin broken)
    IN [i \in DOMAIN done |-> ExtractedPath(done[i])]

\* _extract_zip of a readable archive: listings parsed from its text files
\* first, else its .epub members, else up to ten members in another ebook
\* format, else nothing.
ExtractZip(file_list, listings, broken) ==
    LET txt_files == SelectSeq(file_list, LAMBDA name :
                        \E suffix \in text_suffixes : EndsWith(Lower(name), suffix))
        epub_files == SelectSeq(file_list, LAMBDA name :
                        EndsWith(Lower(name), <<".">> \o Text_epub))
        other_ebooks == SelectSeq(file_list, LAMBDA name :
                        \E ext \in ebook_extensions : EndsWith(Lower(name), ext))
    IN IF txt_files # <<>> /\ listings # <<>>
       THEN [i \in DOMAIN listings |-> Text_PARSED_BOOK \o listings[i]]
       ELSE IF epub_files # <<>> THEN Extracted(epub_files, broken)
       ELSE IF other_ebooks # <<>> THEN Extracted(Take(other_ebooks, 10), broken)
       ELSE <<>>

\* The names an archive of the model holds, and how many at most.
MemberNames ==
    { <<"a", ".", "e", "p", "u", "b">>, <<"b", ".", "E", "P", "U", "B">>, <<"c", ".", "p", "d", "f">>,
      <<"d", ".", "m", "o", "b", "i">>, <<"r", ".", "t", "x", "t">>, <<"i", ".", "j", "p", "g">> }
MaxMembers == 3

InitZip ==
    /\ zipMembers \in SeqsUpTo(MemberNames, MaxMembers)
    /\ zipListings \in {<<>>, << <<"J", "o", " ", "-", " ", "O", "x", ".", "e", "p", "u", "b">> >>}
    /\ zipBroken \in {{}, { <<"a", ".", "e", "p", "u", "b">> }}
    /\ zipPc = "start"
    /\ zipReturned = <<>>

IdleZip ==
    /\ zipMembers = <<>>
    /\ zipListings = <<>>
    /\ zipBroken = {}
    /\ zipPc = "idle"
    /\ zipReturned = <<>>

ExtractZipCall ==
    /\ zipPc = "start"
    /\ zipReturned' = ExtractZip(zipMembers, zipListings, zipBroken)
    /\ zipPc' = "done"
    /\ UNCHANGED <<zipMembers, zipListings, zipBroken>>
    /\ UNCHANGED notZip

NextZip == ExtractZipCall

(***************************************************************************)
(* Request handlers running at once, and connect() called again            *)
(***************************************************************************)

\* How many request handlers of the web application run at once: the
\* development server is started with threaded=True, one thread a request.
MaxHandlers == 2
Handlers == 1..MaxHandlers

\* The functions the handlers call: a search and a download by session id.
HandlerFunctions == {"search_and_download", "download_from_result"}

\* One session, as create_irc_session leaves it, and the handlers idle.
InitHandlers ==
    /\ clock = StartClock
    /\ sessions = <<NewSession(StartClock)>>
    /\ active_sessions = (StartClock :> 1)
    /\ conn = <<NewConnect>>
    /\ listener = << <<>> >>
    /\ opPc = [i \in Handlers |-> NoOp]
    /\ sent = <<>>
    /\ ret = NoRet

\* What the listener reads while the handlers work: a result line, or
\* nothing (the server closed the connection).
HandlerListenerReplies == {"line", "empty"}

\* The session's threads and the handlers' calls by session id.
NextHandlers ==
    \/ \E o \in DOMAIN conn : ConnOpen(o)
    \/ \E o \in DOMAIN conn : \E r \in PlainRegistrationReplies : RegRead(o, r)
    \/ \E o \in DOMAIN conn : JoinSend(o)
    \/ \E o \in DOMAIN conn : \E r \in PlainJoinReplies : JoinRead(o, r)
    \/ \E o \in DOMAIN conn : ConnSucceed(o)
    \/ \E o \in DOMAIN sessions : \E r \in HandlerListenerReplies : ListenerStep(o, r)
    \/ \E i \in Handlers : \E id \in DOMAIN active_sessions :
         \E w \in HandlerFunctions : RegistryCall(i, id, w)
    \/ \E i \in Handlers : MethodSend(i)
    \/ \E i \in Handlers : SearchReturn(i)
    \/ \E i \in Handlers : CountUpdate(i)
    \/ \E i \in Handlers : \E r \in PlainDownloadReplies : DownloadRecv(i, r)
    \/ \E i \in Handlers : DownloadTimeUp(i)
    \/ \E i \in Handlers : \E ok \in BOOLEAN : DownloadFinish(i, ok)
    \/ Tick

\* How many listener threads one object gets at most in the model.
MaxReaders == 2

\* connect() is called on the object again, after an earlier call has
\* returned: the method has no guard, it starts with fresh locals.
ConnectAgain(o) ==
    /\ conn[o].pc \in {"returned_true", "returned_false"}
    /\ Len(listener[o]) < MaxReaders
    /\ conn' = [conn EXCEPT ![o] = NewConnect]
    /\ sent' = <<>>
    /\ ret' = NoRet
    /\ UNCHANGED <<clock, active_sessions, sessions, listener, opPc>>
    /\ UNCHANGED notSess

\* One session object whose connect() is called time and again, its
\* listeners, and a caller that disconnects it.
NextReconnect ==
    \/ \E o \in DOMAIN conn : ConnOpen(o)
    \/ \E o \in DOMAIN conn : \E r \in RegistrationReplies : RegRead(o, r)
    \/ \E o \in DOMAIN conn : JoinSend(o)
    \/ \E o \in DOMAIN conn : \E r \in JoinReplies : JoinRead(o, r)
    \/ \E o \in DOMAIN conn : ConnSucceed(o)
    \/ \E o \in DOMAIN conn : ConnectAgain(o)
    \/ \E o \in DOMAIN sessions : \E r \in ListenerReplies : ListenerStep(o, r)
    \/ \E i \in Callers : \E o \in DOMAIN sessions : Disconnect(i, o)

(***************************************************************************)
(* IRCSession.search_books: the collection window                          *)
(***************************************************************************)

\* How many lines the listener buffers during one window in the model, the
\* values of max_results the callers pass (50 is the default), and how long
\* a time.sleep(1) can take, in seconds.
MaxBuffered == 3
MaxResultsValues == {1, 2, 50}
SleepTimes == {1, 2}

\* books[:max_results] when len(books) > max_results, by length.  (First a
\* mutant without the slice.)
Limited_All(n, max_results) == n
Limited(n, max_results) == IF n > max_results THEN max_results ELSE n

\* search_books has sent its command and taken start_time.
InitCollect ==
    /\ colMax \in MaxResultsValues
    /\ colLines = 0
    /\ colElapsed = 0
    /\ colPolls = 0
    /\ colPc = "test"
    /\ colReturned = 0

IdleCol ==
    /\ colMax = 0
    /\ colLines = 0
    /\ colElapsed = 0
    /\ colPolls = 0
    /\ colPc = "idle"
    /\ colReturned = 0

\* while time.time() - start_time < timeout
CollectTest ==
    /\ colPc = "test"
    /\ colPc' = IF colElapsed < search_timeout THEN "sleep" ELSE "parse"
    /\ UNCHANGED <<colMax, colLines, colElapsed, colPolls, colReturned>>
    /\ UNCHANGED notCol

\* time.sleep(1) and the test of the buffer that follows it: break when
\* max_results lines are buffered.
CollectSleep(d) ==
    /\ colPc = "sleep"
    /\ colElapsed' = colElapsed + d
    /\ colPolls' = colPolls + 1
    /\ colPc' = IF colLines >= colMax THEN "parse" ELSE "test"
    /\ UNCHANGED <<colMax, colLines, colReturned>>
    /\ UNCHANGED notCol

\* The listener thread stores a line while the window is open.
CollectLine ==
    /\ colPc \in {"test", "sleep"}
    /\ colLines < MaxBuffered
    /\ colLines' = colLines + 1
    /\ UNCHANGED <<colMax, colElapsed, colPolls, colPc, colReturned>>
    /\ UNCHANGED notCol

\* After the loop: the parser and the filter make at most one record of a
\* line, the list is cut to max_results and returned; with an empty buffer
\* the empty list is returned.
CollectReturn(books) ==
    /\ colPc = "parse"
    /\ books <= colLines
    /\ colReturned' = Limited(books, colMax)
    /\ colPc' = "done"
    /\ UNCHANGED <<colMax, colLines, colElapsed, colPolls>>
    /\ UNCHANGED notCol

NextCollect ==
    \/ CollectTest
    \/ \E d \in SleepTimes : CollectSleep(d)
    \/ CollectLine
    \/ \E books \in 0..MaxBuffered : CollectReturn(books)

(***************************************************************************)
(* The answer to PING in the read loops                                    *)
(***************************************************************************)

\* str.replace(old, new), from position i on.
RECURSIVE Replaced(_, _, _, _)
Replaced(str, i, old, new) ==
    IF i > Len(str) THEN <<>>
    ELSE IF StartsWithAt(str, i, old)
    THEN new \o Replaced(str, i + Len(old), old, new)
    ELSE <<str[i]>> \o Replaced(str, i + 1, old, new)

Text_PING == <<"P", "I", "N", "G">>
Text_PONG == <<"P", "O", "N", "G">>
CRLF == <<"\r", "\n">>

\* The chunk recv returns for the lines the server sent.
RECURSIVE ChunkOf(_)
ChunkOf(lines) ==
    IF lines = <<>> THEN <<>> ELSE Head(lines) \o CRLF \o ChunkOf(Tail(lines))

\* pong_response = resp.replace("PING", "PONG")
PongResponse(resp) == Replaced(resp, 1, Text_PING, Text_PONG)

\* The texts the branches before the PING branch look for: in the
\* registration loop, and in the join wait on the channel #c.
RegistrationMarks ==
    { <<"0", "0", "4">>,
      <<"W", "e", "l", "c", "o", "m", "e">>,
      <<"4", "3", "3">>,
      <<"N", "i", "c", "k", "n", "a", "m", "e", " ", "i", "s", " ", "a", "l", "r", "e", "a", "d", "y", " ", "i", "n", " ", "u", "s", "e">>,
      <<"E", "R", "R", "O", "R">>,
      <<"C", "l", "o", "s", "i", "n", "g", " ", "L", "i", "n", "k">> }
JoinMarks == { <<"J", "O", "I", "N", " ", "#", "c">>, <<"3", "6", "6">> }

\* The four loops that read the socket.  In the registration loop and in
\* the join wait the PING branch is an elif behind the branches for the
\* marks; in the listener and in download_file it is an if of its own.
ReadLoops == {"registration", "join_wait", "listener", "download_file"}
ReachesPingBranch(where, resp) ==
    CASE where = "registration" -> \A m \in RegistrationMarks : ~Contains(resp, m)
      [] where = "join_wait" -> \A m \in JoinMarks : ~Contains(resp, m)
      [] OTHER -> TRUE

\* What a loop writes to the socket for a chunk: the whole chunk with every
\* PING turned into PONG, if the chunk holds the text PING at all.
Answer(where, resp) ==
    IF ReachesPingBranch(where, resp) /\ Contains(resp, Text_PING)
    THEN <<PongResponse(resp)>>
    ELSE <<>>

\* The lines a server sends in the model: a PING, two channel messages (one
\* of them with the text PING in it) and the numeric 004; and how many of
\* them come in one chunk at most.
ServerLines ==
    { <<"P", "I", "N", "G", " ", ":", "a">>,
      <<":", "n", " ", "P", "R", "I", "V", "M", "S", "G", " ", "#", "c", " ", ":", "h", "i">>,
      <<":", "n", " ", "P", "R", "I", "V", "M", "S", "G", " ", "#", "c", " ", ":", "P", "I", "N", "G">>,
      <<":", "s", " ", "0", "0", "4", " ", "n">> }
MaxChunkLines == 2

InitPong ==
    /\ pongWhere \in ReadLoops
    /\ pongLines \in SeqsUpTo(ServerLines, MaxChunkLines) \ {<<>>}
    /\ pongPc = "start"
    /\ pongWritten = <<>>

IdlePong ==
    /\ pongWhere = "none"
    /\ pongLines = <<>>
    /\ pongPc = "idle"
    /\ pongWritten = <<>>

\* One chunk is read and answered.
ReadChunk ==
    /\ pongPc = "start"
    /\ pongWritten' = Answer(pongWhere, ChunkOf(pongLines))
    /\ pongPc' = "done"
    /\ UNCHANGED <<pongWhere, pongLines>>
    /\ UNCHANGED notPong

NextPong == ReadChunk

(***************************************************************************)
(* Specifications                                                          *)
(***************************************************************************)

StartDCC ==
    InitDCC /\ IdleFallback /\ IdleRate /\ IdleSessions /\ IdleStatus /\ IdleSmart /\ IdleMatch
    /\ IdleSearch
    /\ IdleSelect
    /\ IdleAddr
    /\ IdleOffer
    /\ IdleParse
    /\ IdleZip
    /\ IdleCol
    /\ IdlePong
SpecDCC == StartDCC /\ [][NextDCC]_vars

StartFallback ==
    InitFallback /\ IdleDCC /\ IdleRate /\ IdleSessions /\ IdleStatus /\ IdleSmart /\ IdleMatch
    /\ IdleSearch
    /\ IdleSelect
    /\ IdleAddr
    /\ IdleOffer
    /\ IdleParse
    /\ IdleZip
    /\ IdleCol
    /\ IdlePong
SpecFallback == StartFallback /\ [][NextFallback]_vars

StartRate ==
    InitRate /\ IdleDCC /\ IdleFallback /\ IdleSessions /\ IdleStatus /\ IdleSmart /\ IdleMatch
    /\ IdleSearch
    /\ IdleSelect
    /\ IdleAddr
    /\ IdleOffer
    /\ IdleParse
    /\ IdleZip
    /\ IdleCol
    /\ IdlePong
SpecRate == StartRate /\ [][NextRate]_vars

StartConnect ==
    InitOneSession /\ IdleDCC /\ IdleFallback /\ IdleRate /\ IdleStatus /\ IdleSmart /\ IdleMatch
    /\ IdleSearch
    /\ IdleSelect
    /\ IdleAddr
    /\ IdleOffer
    /\ IdleParse
    /\ IdleZip
    /\ IdleCol
    /\ IdlePong
SpecConnect == StartConnect /\ [][NextConnect]_vars

SpecSession == StartConnect /\ [][NextSession]_vars

\* The listener threads are daemon threads of the process: the scheduler
\* runs each again and again, and a recv of theirs returns or times out
\* within one second.
SpecSessionFair ==
    /\ StartConnect
    /\ [][NextSession]_vars
    /\ WF_vars(\E o \in DOMAIN listener : \E r \in ListenerReplies : ListenerStep(o, r))

StartRegistry ==
    InitRegistry /\ IdleDCC /\ IdleFallback /\ IdleRate /\ IdleStatus /\ IdleSmart /\ IdleMatch
    /\ IdleSearch
    /\ IdleSelect
    /\ IdleAddr
    /\ IdleOffer
    /\ IdleParse
    /\ IdleZip
    /\ IdleCol
    /\ IdlePong
SpecRegistry == StartRegistry /\ [][NextRegistry]_vars

StartStatus ==
    InitStatus /\ IdleDCC /\ IdleFallback /\ IdleRate /\ IdleSessions /\ IdleSmart /\ IdleMatch
    /\ IdleSearch
    /\ IdleSelect
    /\ IdleAddr
    /\ IdleOffer
    /\ IdleParse
    /\ IdleZip
    /\ IdleCol
    /\ IdlePong
SpecStatus == StartStatus /\ [][NextStatus]_vars

StartSmart ==
    InitSmart /\ IdleDCC /\ IdleRate /\ IdleSessions /\ IdleStatus /\ IdleMatch
    /\ IdleSearch
    /\ IdleSelect
    /\ IdleAddr
    /\ IdleOffer
    /\ IdleParse
    /\ IdleZip
    /\ IdleCol
    /\ IdlePong
SpecSmart == StartSmart /\ [][NextSmart]_vars

StartMatch ==
    InitMatch /\ IdleDCC /\ IdleFallback /\ IdleRate /\ IdleSessions /\ IdleStatus /\ IdleSmart
    /\ IdleSearch
    /\ IdleSelect
    /\ IdleAddr
    /\ IdleOffer
    /\ IdleParse
    /\ IdleZip
    /\ IdleCol
    /\ IdlePong
SpecMatch == StartMatch /\ [][NextMatch]_vars

StartSearch ==
    InitSearch /\ IdleDCC /\ IdleFallback /\ IdleRate /\ IdleSessions /\ IdleStatus /\ IdleSmart /\ IdleMatch
    /\ IdleSelect
    /\ IdleAddr
    /\ IdleOffer
    /\ IdleParse
    /\ IdleZip
    /\ IdleCol
    /\ IdlePong
SpecSearch == StartSearch /\ [][NextSearch]_vars

StartSelect ==
    /\ InitSelect /\ IdleDCC /\ IdleFallback /\ IdleRate /\ IdleSessions /\ IdleStatus
    /\ IdleSmart /\ IdleMatch /\ IdleSearch
    /\ IdleAddr
    /\ IdleOffer
    /\ IdleParse
    /\ IdleZip
    /\ IdleCol
    /\ IdlePong
SpecSelect == StartSelect /\ [][NextSelect]_vars

StartAddr ==
    /\ InitAddr /\ IdleDCC /\ IdleFallback /\ IdleRate /\ IdleSessions /\ IdleStatus
    /\ IdleSmart /\ IdleMatch /\ IdleSearch /\ IdleSelect
    /\ IdleOffer
    /\ IdleParse
    /\ IdleZip
    /\ IdleCol
    /\ IdlePong
SpecAddr == StartAddr /\ [][NextAddr]_vars

StartOffer ==
    /\ InitOffer /\ IdleDCC /\ IdleFallback /\ IdleRate /\ IdleSessions /\ IdleStatus
    /\ IdleSmart /\ IdleMatch /\ IdleSearch /\ IdleSelect /\ IdleAddr
    /\ IdleParse
    /\ IdleZip
    /\ IdleCol
    /\ IdlePong
SpecOffer == StartOffer /\ [][NextOffer]_vars

StartParse ==
    /\ InitParse /\ IdleDCC /\ IdleFallback /\ IdleRate /\ IdleSessions /\ IdleStatus
    /\ IdleSmart /\ IdleMatch /\ IdleSearch /\ IdleSelect /\ IdleAddr /\ IdleOffer
    /\ IdleZip
    /\ IdleCol
    /\ IdlePong
SpecParse == StartParse /\ [][NextParse]_vars

StartZip ==
    /\ InitZip /\ IdleDCC /\ IdleFallback /\ IdleRate /\ IdleSessions /\ IdleStatus
    /\ IdleSmart /\ IdleMatch /\ IdleSearch /\ IdleSelect /\ IdleAddr /\ IdleOffer
    /\ IdleParse
    /\ IdleCol
    /\ IdlePong
SpecZip == StartZip /\ [][NextZip]_vars

StartHandlers ==
    /\ InitHandlers /\ IdleDCC /\ IdleFallback /\ IdleRate /\ IdleStatus /\ IdleSmart
    /\ IdleMatch /\ IdleSearch /\ IdleSelect /\ IdleAddr /\ IdleOffer /\ IdleParse
    /\ IdleZip
    /\ IdleCol
    /\ IdlePong
SpecHandlers == StartHandlers /\ [][NextHandlers]_vars

SpecReconnect == StartConnect /\ [][NextReconnect]_vars

StartCollect ==
    /\ InitCollect /\ IdleDCC /\ IdleFallback /\ IdleRate /\ IdleSessions /\ IdleStatus
    /\ IdleSmart /\ IdleMatch /\ IdleSearch /\ IdleSelect /\ IdleAddr /\ IdleOffer
    /\ IdleParse /\ IdleZip
    /\ IdlePong
SpecCollect == StartCollect /\ [][NextCollect]_vars

StartPong ==
    /\ InitPong /\ IdleDCC /\ IdleFallback /\ IdleRate /\ IdleSessions /\ IdleStatus
    /\ IdleSmart /\ IdleMatch /\ IdleSearch /\ IdleSelect /\ IdleAddr /\ IdleOffer
    /\ IdleParse /\ IdleZip /\ IdleCol
SpecPong == StartPong /\ [][NextPong]_vars

\* The thread that runs connect() is scheduled again and again; what the
\* server sends is up to the server.
SpecConnectFair == StartConnect /\ [][NextConnect]_vars /\ WF_vars(NextConnect)

(***************************************************************************)
(* Claims about download_with_fallback                                     *)
(***************************************************************************)

\* The download commands of the candidates among the first n that carry one.
RECURSIVE CommandsOf(_, _)
CommandsOf(cands, n) ==
    IF n = 0 THEN <<>>
    ELSE IF cands[n].download_command # Missing
    THEN Append(CommandsOf(cands, n - 1), cands[n].download_command)
    ELSE CommandsOf(cands, n - 1)

\* C5: download_with_fallback takes the candidates strictly in list order;
\* a success ends the call at once, and when attempt N is the first to
\* succeed the result is that success with attempt_number = N,
\* total_attempts = the number of candidates and used_candidate = candidate
\* N; no download command of a candidate after N is issued.
C5_FallbackStopsAtFirstSuccess ==
    /\ fbTried = [i \in 1..Len(fbTried) |-> i]
    /\ Len(fbOutcomes) = Len(fbTried)
    /\ Len(fbTried) <= Len(candidates)
    /\ fbIssued = IF mainThread THEN CommandsOf(candidates, Len(fbTried)) ELSE <<>>
    /\ \A i \in 1..Len(fbOutcomes) :
         fbOutcomes[i] = "success" =>
            /\ i = Len(fbOutcomes)
            /\ fbPc = "done"
            /\ fbResult.success
    /\ (fbPc = "done" /\ fbResult.success) =>
         LET n == Len(fbTried)
         IN /\ n >= 1
            /\ fbOutcomes[n] = "success"
            /\ \A i \in 1..(n - 1) : fbOutcomes[i] # "success"
            /\ fbResult.attempt_number = n
            /\ fbResult.total_attempts = Len(candidates)
            /\ fbResult.used_candidate = candidates[n]

\* Candidate 2 of 3 succeeded after candidate 1 failed; candidate 3 was
\* never taken.
C5_Witness ==
    /\ fbPc = "done"
    /\ fbResult.success
    /\ Len(candidates) = 3
    /\ fbResult.attempt_number = 2
    /\ fbOutcomes[1] = "failure"
    /\ Len(fbIssued) = 2

\* C6: when every candidate fails, by a failure result or by an exception,
\* the result is success = False with total_attempts = the number of
\* candidates and candidates_tried = every candidate's server in list
\* order, each candidate having been taken exactly once; an empty list
\* gives a failure and no download is issued.
C6_AllFailedAggregate ==
    /\ (fbPc = "done" /\ ~fbResult.success /\ candidates # <<>>) =>
         /\ fbTried = [i \in 1..Len(candidates) |-> i]
         /\ \A i \in 1..Len(candidates) : fbOutcomes[i] \in {"failure", "exception"}
         /\ fbResult.total_attempts = Len(candidates)
         /\ fbResult.candidates_tried = [i \in 1..Len(candidates) |-> candidates[i].server]
    /\ (fbPc = "done" /\ \A i \in 1..Len(fbOutcomes) : fbOutcomes[i] # "success") =>
         ~fbResult.success
    /\ (fbPc = "done" /\ candidates = <<>>) =>
         /\ fbResult = NoCandidatesResult
         /\ fbTried = <<>>
         /\ fbIssued = <<>>

\* Three candidates failed, one by an exception and two by a failure result.
C6_Witness ==
    /\ fbPc = "done"
    /\ ~fbResult.success
    /\ Len(candidates) = 3
    /\ fbOutcomes[1] = "failure"
    /\ fbOutcomes[2] = "exception"
    /\ fbOutcomes[3] = "failure"

(***************************************************************************)
(* Claims about DCCHandler.download_file                                   *)
(***************************************************************************)

\* C7 as stated: download_file reports success exactly when the number of
\* bytes received equals the declared size; a peer that closes early gives
\* success = False with the received and expected counts; never more than
\* the declared size is read or written.
C7_SuccessIffComplete ==
    /\ dccPc = "done" => (dccResult.success <=> received = dcc.size)
    /\ (dccPc = "done" /\ ~dccRaised /\ received # dcc.size) =>
         /\ dccResult.received = received
         /\ dccResult.expected = dcc.size
    /\ received <= dcc.size
    /\ written <= dcc.size
    /\ requested <= dcc.size

\* C7 as amended: download_file reports success exactly when nothing raised
\* (the connection and the output file opened, no read failed) and the
\* number of bytes received equals the declared size; a peer that closes
\* early gives success = False with the received and expected counts; never
\* more than the declared size is read or written.
C7_SuccessIffCompleteAndNoError ==
    /\ dccPc = "done" =>
         (dccResult.success <=> (~dccRaised /\ received = dcc.size))
    /\ (dccPc = "done" /\ ~dccRaised /\ received # dcc.size) =>
         /\ ~dccResult.success
         /\ dccResult.received = received
         /\ dccResult.expected = dcc.size
    /\ received <= dcc.size
    /\ written = received
    /\ requested <= dcc.size

\* The scenario: 1000 bytes declared, the peer closes after 800.
C7_Witness ==
    /\ dccPc = "done"
    /\ ~dccRaised
    /\ dcc.size = ScenarioSize
    /\ received = 800
    /\ ~dccResult.success
    /\ dccResult.received = 800
    /\ dccResult.expected = ScenarioSize

\* C8: every failed result of download_file carries the received and the
\* expected byte counts, a failure by a connect error or by a read timeout
\* in mid-transfer included.
C8_FailureCarriesCounts ==
    (dccPc = "done" /\ ~dccResult.success) =>
        {"received", "expected"} \subseteq DOMAIN dccResult

(***************************************************************************)
(* Claims about the rate limiter                                           *)
(***************************************************************************)

\* C1: on one session whose search_books and download_file calls are issued
\* one after another, the sends of two consecutive commands are at least
\* rate_limit_delay apart, the timestamp recorded is that of the send, and
\* the first command of the session is sent without delay.
C1_MinimumInterval ==
    /\ rateCount >= 2 => rateLastSend - ratePrevSend >= rate_limit_delay
    /\ rateCount = 1 => rateSlept = 0
    /\ rateCount >= 1 => last_command_time = rateLastSend

\* A download returned at once and the next command slept the whole delay.
C1_Witness ==
    /\ rateCount = 2
    /\ rateSlept = rate_limit_delay
    /\ rateLastSend - ratePrevSend = rate_limit_delay

(***************************************************************************)
(* Claims about connect()                                                  *)
(***************************************************************************)

\* C3: connect() makes at most 3 attempts and sleeps 5 s and then 10 s
\* between them (no sleep before the first); when every attempt has failed
\* it returns False (nothing is raised: the whole body stands in
\* try/except Exception) and the status then has connected = False and a
\* non-empty errors list; when an attempt succeeds it returns True in that
\* attempt; and after it has returned it does nothing more.
C3_ConnectRetries ==
    [][\A o \in DOMAIN conn :
         LET c == conn[o]
             d == conn'[o]
         IN /\ d.attempts <= 3
            /\ d.backoffs \in {<<>>, <<5>>, <<5, 10>>}
            /\ d.attempts > c.attempts =>
                 /\ c.pc = "start"
                 /\ d.attempts = c.attempts + 1
                 /\ Len(c.backoffs) = c.attempts
            /\ (c.pc # "returned_false" /\ d.pc = "returned_false") =>
                 /\ d.attempts = 3
                 /\ d.backoffs = <<5, 10>>
                 /\ sessions'[o].status.connected = FALSE
                 /\ sessions'[o].status.errors # <<>>
            /\ sessions'[o].status.errors # <<>> => d.pc = "returned_false"
            /\ (c.pc # "returned_true" /\ d.pc = "returned_true") =>
                 /\ c.attempts = c.retry_count + 1
                 /\ sessions'[o].connected
                 /\ sessions'[o].status.connected
                 /\ sessions'[o].status.errors = <<>>
            /\ c.pc \in {"returned_true", "returned_false"} => d = c
      ]_vars

\* All three attempts have failed, after sleeps of 5 s and 10 s, and
\* connect() has returned False with the failure in the status.
C3_Witness ==
    /\ conn[1].pc = "returned_false"
    /\ conn[1].attempts = 3
    /\ conn[1].backoffs = <<5, 10>>
    /\ sessions[1].status.errors # <<>>
    /\ ~sessions[1].status.connected

\* C4: every call to connect() ends whatever the server does: the
\* registration read loop is left after a bounded number of reads, also
\* when the server sends only replies the loop does not recognise or has
\* closed the connection.
C4_RegistrationEnds ==
    (conn[1].pc = "registering") ~> (conn[1].pc # "registering")

(***************************************************************************)
(* Claims about the operations of a session                                *)
(***************************************************************************)

\* C2: search_books, download_file, search_author_level and
\* search_title_level run on a Ready session only.  A call of any of them
\* on a session whose connected flag is False or whose socket is None raises
\* "Not connected to IRC", writes nothing to the socket and leaves every
\* field of the session (buffers, counters, last_command_time), the clock
\* and the caller as they were; and an operation is only ever entered from
\* a state in which the session is connected and has a socket.
C2_NotReadyCallFails ==
    [][/\ \A i \in Callers : \A o \in DOMAIN sessions : \A op \in Methods :
            (/\ MethodCall(i, o, op)
             /\ ~sessions[o].connected \/ sessions[o].socket = None)
            => /\ ret' = Raised("Not connected to IRC")
               /\ sent' = <<>>
               /\ sessions' = sessions
               /\ opPc' = opPc
               /\ clock' = clock
       /\ \A i \in Callers :
            (opPc[i].phase = "idle" /\ opPc'[i].phase # "idle")
            => /\ sessions[opPc'[i].obj].connected
               /\ sessions[opPc'[i].obj].socket # None
      ]_vars

\* An operation was called on a session that had completed a search and
\* was then disconnected, and raised the error.
C2_Witness ==
    /\ ret = Raised("Not connected to IRC")
    /\ sessions[1].socket = None
    /\ sessions[1].status.total_searches = 1

(***************************************************************************)
(* Claims about the registry                                               *)
(***************************************************************************)

\* C9: close_session(id) returns True exactly when id is registered; it
\* then removes that entry and no other and leaves the session
\* disconnected (no socket, connected and joined_channel False) and every
\* other session as it was.  A close of an id that is not registered (a
\* second close, an unknown id) returns False and changes nothing.  For an
\* id that is not registered get_session returns None and get_session_status
\* and every function that works on a session id return success = False with
\* "Session not found", sending and changing nothing.
C9_CloseSession ==
    [][/\ \A i \in Callers : \A id \in CallerIds :
            CloseSession(i, id) =>
              IF id \in DOMAIN active_sessions
              THEN /\ ret' = Bool(TRUE)
                   /\ DOMAIN active_sessions' = DOMAIN active_sessions \ {id}
                   /\ \A k \in DOMAIN active_sessions' :
                        active_sessions'[k] = active_sessions[k]
                   /\ sessions'[active_sessions[id]].socket = None
                   /\ ~sessions'[active_sessions[id]].connected
                   /\ ~sessions'[active_sessions[id]].joined_channel
                   /\ \A q \in DOMAIN sessions \ {active_sessions[id]} :
                        sessions'[q] = sessions[q]
              ELSE /\ ret' = Bool(FALSE)
                   /\ sent' = <<>>
                   /\ UNCHANGED <<active_sessions, sessions, conn, listener, opPc>>
       /\ \A i \in Callers : \A id \in CallerIds \ DOMAIN active_sessions :
            /\ GetSession(i, id) => ret' = ReturnedNone
            /\ (\/ GetSessionStatus(i, id)
                \/ \E w \in RegistryFunctions : RegistryCall(i, id, w))
               => /\ ret' = Dict(FALSE, "Session not found")
                  /\ sent' = <<>>
                  /\ UNCHANGED <<active_sessions, sessions, conn, listener, opPc>>
      ]_vars

\* close_session has just returned True for the id of a connected session:
\* QUIT went out, the entry is gone, the session has no socket.
C9_Witness ==
    /\ ret = Bool(TRUE)
    /\ sent = <<1, <<"QUIT">>>>
    /\ sessions[1].session_id \notin DOMAIN active_sessions
    /\ sessions[1].socket = None
    /\ ~sessions[1].connected
    /\ sessions[1].status.connected

\* C10: a registry entry (an id and the session registered under it)
\* disappears only through close_session: in every step, an id that was
\* registered is still registered to the same session afterwards, unless
\* the step is a close_session of that id that returns True.
C10_EntryLeavesOnlyByClose ==
    [][\A id \in DOMAIN active_sessions :
         (\/ id \notin DOMAIN active_sessions'
          \/ active_sessions'[id] # active_sessions[id])
         => /\ ret' = Bool(TRUE)
            /\ \E i \in Callers : CloseSession(i, id)
      ]_vars

\* C11: each session id maps to exactly one session: a create_irc_session
\* call returns an id that no session made before carries, and it leaves
\* every registered id registered to the session it was registered to,
\* also when the sessions are made within the same clock second.
C11_IdsDistinct ==
    [][\A i \in Callers :
         CreateSession(i) =>
            /\ \A o \in DOMAIN sessions : sessions[o].session_id # ret'.id
            /\ \A id \in DOMAIN active_sessions :
                 /\ id \in DOMAIN active_sessions'
                 /\ active_sessions'[id] = active_sessions[id]
      ]_vars

(***************************************************************************)
(* Claims about disconnect()                                               *)
(***************************************************************************)

\* C12: after disconnect() returns on a connected session (connected flag
\* True, a socket present), the session is disconnected in every view:
\* connected and joined_channel are False, the socket is released, and the
\* status that get_status() copies reports connected = False.
C12_DisconnectedInEveryView ==
    [][\A i \in Callers : \A o \in DOMAIN sessions :
         (/\ Disconnect(i, o)
          /\ sessions[o].connected
          /\ sessions[o].socket # None)
         => /\ ~sessions'[o].connected
            /\ ~sessions'[o].joined_channel
            /\ sessions'[o].socket = None
            /\ ~sessions'[o].status.connected
      ]_vars

\* C13: disconnect() is idempotent: a call on a session that has no socket
\* (a second call, a call on a session that never connected) sends
\* nothing, raises nothing and leaves every field of the session as it
\* was; and disconnecting twice gives what disconnecting once gives.
C13_DisconnectIdempotent ==
    [][\A i \in Callers : \A o \in DOMAIN sessions :
         /\ Disconnected(Disconnected(sessions[o])) = Disconnected(sessions[o])
         /\ (Disconnect(i, o) /\ sessions[o].socket = None)
            => /\ sent' = <<>>
               /\ ret' = ReturnedNone
               /\ sessions' = sessions
               /\ UNCHANGED <<clock, active_sessions, conn, listener, opPc>>
      ]_vars

\* disconnect() has just returned on a session whose connect() has not
\* opened a socket yet.
C13_Witness ==
    /\ ret = ReturnedNone
    /\ sent = <<>>
    /\ conn[1].pc = "start"
    /\ conn[1].attempts = 0
    /\ sessions[1] = NewSession(StartClock)

(***************************************************************************)
(* Claims about get_status()                                               *)
(***************************************************************************)

\* C14: get_status returns a snapshot copy, never a live reference: what a
\* caller does to the dictionary it was given (assigning to a key,
\* appending to its errors list) does not change what the session's status
\* shows, and an _update_status call does not change what a dictionary
\* already returned shows.
C14_SnapshotIsCopy ==
    [][/\ (\/ \E k \in DOMAIN snapshots : \E b \in BOOLEAN :
                 CallerAssigns(k, "connected", b)
           \/ \E k \in DOMAIN snapshots : CallerAppends(k))
          => Shown(statusDict', lists') = Shown(statusDict, lists)
       /\ (\/ \E u \in PlainUpdates : UpdateStatus(u)
           \/ UpdateStatusErrors)
          => \A k \in DOMAIN snapshots :
               Shown(snapshots'[k], lists') = Shown(snapshots[k], lists)
      ]_vars

(***************************************************************************)
(* Claims about smart_search_and_download                                  *)
(***************************************************************************)

\* C15: smart_search_and_download with no title never issues a download:
\* it runs only the author-level search and returns the unique-book list;
\* with a title it runs the title-level search and then
\* download_with_fallback once over exactly the candidates found, and
\* returns a failure without any download when there are none; in every
\* case it returns a dictionary and never raises.
C15_SmartSearch ==
    /\ smartSearches \in
         {<<>>, <<IF Truthy(smartTitle) THEN "title_level" ELSE "author_level">>}
    /\ smartFallbacks <= 1
    /\ ~Truthy(smartTitle) =>
         /\ fbPc = "idle" /\ smartFallbacks = 0
         /\ fbTried = <<>> /\ fbIssued = <<>>
         /\ (smartPc = "done" /\ smartFound # <<>>) =>
              /\ smartResult.success
              /\ smartResult.unique_books = smartFound
    /\ Truthy(smartTitle) =>
         /\ fbPc # "idle" => (candidates = smartFound /\ smartFallbacks = 1)
         /\ smartFound = <<>> => (fbPc = "idle" /\ fbIssued = <<>> /\ fbTried = <<>>)
         /\ (smartPc = "done" /\ smartFound = <<>>) => ~smartResult.success
         /\ (smartPc = "done" /\ smartFound # <<>>) =>
              /\ fbPc = "done"
              /\ smartResult = Updated(fbResult, [search_type |-> "title_level"])
    /\ smartPc = "done" => "success" \in DOMAIN smartResult

\* A call with a title found two candidates, the first download failed and
\* the second succeeded, and the annotated result was returned.
C15_Witness ==
    /\ smartPc = "done"
    /\ smartTitle = "Dune"
    /\ Len(smartFound) = 2
    /\ fbOutcomes = <<"failure", "success">>
    /\ smartResult.success
    /\ smartResult.search_type = "title_level"

(***************************************************************************)
(* Claims about title matching and ranking                                 *)
(***************************************************************************)

\* C19: the title match relation is symmetric: for all normalized titles a
\* and b, _is_title_match(a, b) = _is_title_match(b, a), whether they are
\* equal, one contains the other, their word sets overlap, or one is
\* empty.
C19_MatchSymmetric ==
    matchPc = "done" =>
        /\ matchForward = matchBackward
        /\ (matchTarget = <<>> \/ matchCandidate = <<>>) => ~matchForward
        /\ (matchTarget = matchCandidate /\ matchTarget # <<>>) => matchForward
        /\ (/\ matchTarget # <<>>
            /\ Contains(matchCandidate, matchTarget)) => matchForward

\* Two titles matched by their words alone (3 of 4 in common): neither
\* contains the other.
C19_Witness ==
    /\ matchPc = "done"
    /\ matchForward
    /\ matchBackward
    /\ Len(matchTarget) < Len(matchCandidate)
    /\ ~Contains(matchCandidate, matchTarget)

\* The records search_books returns to the search that is running.
AllResults ==
    IF searchTitle = <<>>
    THEN SearchBooks(parsedBooks, searchAuthor, <<>>, searchMax * 2)
    ELSE SearchBooks(parsedBooks, searchAuthor, searchTitle, searchMax * 3)

\* C16: search_title_level(author, title) returns every peer that offers
\* the title: a parsed record whose author is the queried author and whose
\* title matches the queried title under the normalized-title rule
\* survives search_books' own filtering, and its server is among the
\* candidates returned.
C16_EveryPeerReturned ==
    (searchPc = "returned" /\ searchTitle # <<>>) =>
        \A b \in Range(parsedBooks) :
            (/\ b.author = searchAuthor
             /\ IsTitleMatch(NormalizeTitle(searchTitle), NormalizeTitle(b.title)))
            => /\ b \in Range(AllResults)
               /\ \E i \in DOMAIN searchReturned : searchReturned[i].server = b.server

\* C17: search_author_level returns exactly one record per distinct
\* normalized title among the results of search_books (no two returned
\* records have the same normalized title; up to max_results every title
\* group is represented), and the record returned for a group is a member
\* of the group with the highest score.
C17_OnePerTitle ==
    (searchPc = "returned" /\ searchTitle = <<>>) =>
        LET groups == {NormalizeTitle(r.title) : r \in Range(AllResults)}
        IN /\ \A i, j \in DOMAIN searchReturned :
                i # j => NormalizeTitle(searchReturned[i].title)
                         # NormalizeTitle(searchReturned[j].title)
           /\ Len(searchReturned) = Min(Cardinality(groups), searchMax)
           /\ \A i \in DOMAIN searchReturned :
                /\ searchReturned[i] \in Range(AllResults)
                /\ \A x \in Range(AllResults) :
                     NormalizeTitle(x.title) = NormalizeTitle(searchReturned[i].title)
                     => CalculateCandidateScore(searchReturned[i], "author")
                        >= CalculateCandidateScore(x, "author")

\* Three records in two title groups: the v5 copy was taken for its group
\* and stands after the other title.
C17_Witness ==
    /\ searchPc = "returned"
    /\ searchTitle = <<>>
    /\ Len(parsedBooks) = 3
    /\ Len(searchReturned) = 2
    /\ searchReturned[2].title = Text_Ox \o <<" ">> \o Text_v5
    /\ \E x \in Range(parsedBooks) : x.title = Text_Ox

\* A title that ends in a version marker " v<digits>": where the marker
\* starts (0 if there is none), its number, and the title without it.
MarkerAt(title) ==
    IF \E i \in DOMAIN title :
          /\ StartsWithAt(title, i, <<" ", "v">>)
          /\ i + 2 <= Len(title)
          /\ SkipDigits(title, i + 2) = Len(title) + 1
    THEN CHOOSE i \in DOMAIN title :
          /\ StartsWithAt(title, i, <<" ", "v">>)
          /\ i + 2 <= Len(title)
          /\ SkipDigits(title, i + 2) = Len(title) + 1
    ELSE 0
MarkerNumber(title) == ToInt(From(title, MarkerAt(title) + 2))
WithoutMarker(title) == SubSeq(title, 1, MarkerAt(title) - 1)

\* C18: the list search_title_level returns holds at most one candidate
\* per server tag, the best of that server among the matching results, and
\* is ordered by non-increasing _calculate_candidate_score; so of two
\* candidates that differ in their version marker only, the one with the
\* higher marker stands before the other.
C18_RankedPerServer ==
    (searchPc = "returned" /\ searchTitle # <<>>) =>
        LET exact == ExactMatches(AllResults, searchTitle)
            Score(c) == CalculateCandidateScore(c, "title")
        IN /\ \A i, j \in DOMAIN searchReturned :
                i # j => searchReturned[i].server # searchReturned[j].server
           /\ \A i \in DOMAIN searchReturned :
                /\ searchReturned[i] \in Range(exact)
                /\ \A x \in Range(exact) :
                     x.server = searchReturned[i].server
                     => Score(searchReturned[i]) >= Score(x)
           /\ \A i, j \in DOMAIN searchReturned :
                i < j => Score(searchReturned[i]) >= Score(searchReturned[j])
           /\ \A i, j \in DOMAIN searchReturned :
                LET a == searchReturned[i]
                    b == searchReturned[j]
                IN (/\ MarkerAt(a.title) > 0 /\ MarkerAt(b.title) > 0
                    /\ WithoutMarker(a.title) = WithoutMarker(b.title)
                    /\ a.author = b.author /\ a.format = b.format /\ a.size = b.size
                    /\ MarkerNumber(a.title) > MarkerNumber(b.title))
                   => i < j

\* C20: best-per-title selection is idempotent: grouping the list a
\* best-per-title pass gave by normalized title and applying
\* _select_best_candidate to each group again gives the same records, one
\* per title.
C20_BestPerTitleIdempotent ==
    searchPc = "reranked" =>
        /\ searchAgain = searchReturned
        /\ \A i, j \in DOMAIN searchAgain :
             i # j => NormalizeTitle(searchAgain[i].title)
                      # NormalizeTitle(searchAgain[j].title)

\* The second pass over a list of two titles, which the first pass made of
\* three different records: one of its groups had two members.
C20_Witness ==
    /\ searchPc = "reranked"
    /\ Cardinality(Range(AllResults)) = 3
    /\ Len(searchAgain) = 2
    /\ searchMax = 20

\* C21: among candidates for the same title that have equal size and
\* format and differ only in their version marker (v1 to v5),
\* _select_best_candidate returns the one with the highest version,
\* whatever their order in the list.
C21_HighestVersionSelected ==
    selPc = "done" =>
        /\ selBest \in Range(selCands)
        /\ \A c \in Range(selCands) :
             MarkerNumber(selBest.title) >= MarkerNumber(c.title)

\* The list Book v3, Book v5, Book v4: Book v5 was returned.
C21_Witness ==
    /\ selPc = "done"
    /\ Len(selCands) = 3
    /\ MarkerNumber(selCands[1].title) = 3
    /\ MarkerNumber(selCands[2].title) = 5
    /\ MarkerNumber(selCands[3].title) = 4
    /\ selBest.title = Text_Book \o <<" ">> \o Text_v5

(***************************************************************************)
(* Claims about the offer codec and the result parser                      *)
(***************************************************************************)

\* The four numbers of a dotted quad, as written.
QuadOf(ip) == [i \in DOMAIN SplitOn(ip, ".") |-> ToInt(SplitOn(ip, ".")[i])]

\* C22: for every address integer n in 0..2^32-1, _int_to_ip(n) is the
\* four octets of n in big-endian order joined by dots (3232235777 gives
\* 192.168.1.1), and encoding that dotted quad back to an integer and
\* decoding again gives the same text.
C22_IntToIpRoundTrip ==
    /\ addrPc \in {"decoded", "again"} =>
         LET quad == QuadOf(addrText)
         IN /\ Len(quad) = 4
            /\ \A i \in 1..4 : quad[i] \in 0..255 /\ Decimal(quad[i]) = SplitOn(addrText, ".")[i]
            /\ quad[1] * 256 + quad[2] = addrInt.hi
            /\ quad[3] * 256 + quad[4] = addrInt.lo
            /\ IpToInt(addrText) = addrInt
    /\ addrPc = "again" => addrAgain = addrText
    /\ (addrPc \in {"decoded", "again"} /\ addrInt = Wide(49320, 257)) =>
         addrText = <<"1", "9", "2", ".", "1", "6", "8", ".", "1", ".", "1">>

\* 3232235777 = 49320 * 2^16 + 257 went there and back.
C22_Witness ==
    /\ addrPc = "again"
    /\ addrInt = Wide(49320, 257)
    /\ addrAgain = <<"1", "9", "2", ".", "1", "6", "8", ".", "1", ".", "1">>

\* C23: parse_dcc_string returns None for any line that does not match
\* the DCC SEND pattern and never raises; when the pattern matches but the
\* address integer does not fit in 32 bits, the offer is still returned,
\* with ip '0.0.0.0'.
C23_MalformedOfferGivesNone ==
    offerPc = "done" =>
        /\ offerResult.raised = ""
        /\ ~DccSearch(offerLine).matched => offerResult.value = NoOffer
        /\ (/\ DccSearch(offerLine).matched
            /\ ~Fits32(ToWide(DccSearch(offerLine).ip)))
           => /\ offerResult.value # NoOffer
              /\ offerResult.value.ip = Text_0000
              /\ offerResult.value.filename = DccSearch(offerLine).filename
              /\ offerResult.value.raw_line = offerLine

\* An offer whose address is 2^32 was parsed.
C23_Witness ==
    /\ offerPc = "done"
    /\ DccSearch(offerLine).matched
    /\ ToWide(DccSearch(offerLine).ip) = Wide(Half, 0)
    /\ offerResult.value # NoOffer
    /\ offerResult.value.ip = Text_0000

\* C24: a bot line of the form !<tag> <author> - <title>.<ext> ::INFO::
\* <size> parses to a record with server = tag, author, title, format =
\* ext and size = the text after the marker; the line about The Great
\* Gatsby gives Ook / F Scott Fitzgerald / The Great Gatsby / epub /
\* 332.7KB.
C24_InfoLineParsed ==
    parsePc = "done" =>
        \A tag \in FormTags, author \in FormAuthors, title \in FormTitles,
           ext \in FormExts, size \in FormSizes :
            parseLines = <<InfoLine(tag, author, title, ext, size)>> =>
                /\ Len(parseOutcome.value.results) = 1
                /\ parseOutcome.value.results[1].server = tag
                /\ parseOutcome.value.results[1].author = author
                /\ parseOutcome.value.results[1].title = title
                /\ parseOutcome.value.results[1].format = ext
                /\ parseOutcome.value.results[1].size = size

\* C25: the result parser yields a record only if its author and its
\* title each have at least 2 characters and its extension is in the
\* allow-list of ebook formats; any other line yields no record.
C25_OnlyValidRecords ==
    parsePc = "done" =>
        \A i \in DOMAIN parseOutcome.value.results :
            /\ Len(parseOutcome.value.results[i].author) >= 2
            /\ Len(parseOutcome.value.results[i].title) >= 2
            /\ parseOutcome.value.results[i].format \in Range(FILE_TYPES)

\* C26: parse_search_results never raises for any list of lines: a line
\* that matches no pattern is skipped (or recorded as a ParseError), every
\* later line is still parsed, blank lines are ignored, and the records
\* returned are those of the lines that have one, in the order of the
\* lines.
C26_ParseNeverRaises ==
    parsePc = "done" =>
        LET parsed == [i \in DOMAIN parseLines |-> ParseLine(Strip(parseLines[i]))]
            kept == SelectSeq(parsed, LAMBDA r : r # NoRecord)
        IN /\ parseOutcome.raised = ""
           /\ parseOutcome.value.results = kept
           /\ \A i \in DOMAIN parseLines :
                Strip(parseLines[i]) = <<>> => parsed[i] = NoRecord
           /\ Len(parseOutcome.value.results) + Len(parseOutcome.value.errors)
                <= Len(parseLines)

\* A list of three: a line that is no result, then two results from
\* different servers; both records came back, in that order.
C26_Witness ==
    /\ parsePc = "done"
    /\ Len(parseLines) = 3
    /\ ParseLine(Strip(parseLines[1])) = NoRecord
    /\ Strip(parseLines[1]) # <<>>
    /\ Len(parseOutcome.value.results) = 2
    /\ parseOutcome.value.results[1].server # parseOutcome.value.results[2].server

\* C27: _extract_zip on an archive whose text files yield no book records
\* returns exactly the extracted paths of the archive's .epub members
\* (matched without regard to case), ignoring pdf, mobi, txt and image
\* members, and returns an empty list when the archive has no .epub
\* member.
C27_OnlyEpubExtracted ==
    (zipPc = "done" /\ zipListings = <<>>) =>
        LET epubs == SelectSeq(zipMembers, LAMBDA name :
                        /\ EndsWith(Lower(name), <<".">> \o Text_epub)
                        /\ name \notin zipBroken)
        IN zipReturned = [i \in DOMAIN epubs |-> ExtractedPath(epubs[i])]

(***************************************************************************)
(* Claims about threads running at once                                    *)
(***************************************************************************)

\* An operation that has passed the rate limiter, emptied the buffers and
\* sent its command, and has not returned yet.
PastLimiter(p) == p.phase \in {"collecting", "offer_wait", "transfer", "counting"}

\* C28: on one session at most one search or download is in progress at
\* any time: an operation requested for a session id while another is
\* running on that session does not pass the rate limiter, empty the
\* buffers or send its command before the other has finished.  Hence no
\* two handlers are ever both past the rate limiter, command sent, on the
\* same session object.
C28_OneOperationPerSession ==
    \A i, j \in DOMAIN opPc :
        (i # j /\ PastLimiter(opPc[i]) /\ PastLimiter(opPc[j]))
            => opPc[i].obj # opPc[j].obj

\* close_session has returned True for the object's id: no id of the
\* registry leads to the object, and it was not replaced under its id by a
\* session made in the same second (no other object carries its id).
Closed(o) ==
    /\ \A id \in DOMAIN active_sessions : active_sessions[id] # o
    /\ \A q \in DOMAIN sessions \ {o} :
         sessions[q].session_id # sessions[o].session_id

\* C29: close_session may be called at any time, also while the connect
\* thread started by create_irc_session is still running: once
\* close_session(id) has returned True, no step makes the session
\* connected and no step starts a listener thread for it.
C29_ClosedStaysClosed ==
    [][\A o \in DOMAIN sessions :
         Closed(o) => /\ ~sessions'[o].connected
                      /\ Len(listener'[o]) = Len(listener[o])
      ]_vars

\* C30: at any time at most one listener thread of a session is in its
\* loop, also when connect() is called again on a connected session or
\* after a disconnect.
C30_OneReader ==
    \A o \in DOMAIN listener : Cardinality(Running(listener[o])) <= 1

(***************************************************************************)
(* Claims about the reader, the buffers and the counters                   *)
(***************************************************************************)

\* C37: the status counters never lose an increment, whatever the
\* interleaving of operations on one session: every search that completes
\* with at least one buffered line leaves total_searches one higher than
\* it was just before its update, and every download that succeeds leaves
\* total_downloads one higher.
C37_NoLostIncrement ==
    [][\A i \in DOMAIN opPc :
         CountUpdate(i) =>
            LET o == opPc[i].obj
            IN IF opPc[i].op = "download_file"
               THEN sessions'[o].status.total_downloads
                        = sessions[o].status.total_downloads + 1
               ELSE sessions'[o].status.total_searches
                        = sessions[o].status.total_searches + 1
      ]_vars

\* C38: whenever a session is connected its listener is running: a step in
\* which a listener thread of a session leaves its loop (the server closed
\* the socket, a read failed) leaves the session not connected.
C38_ReaderExitLeavesReady ==
    [][\A o \in DOMAIN listener :
         Cardinality(Running(listener'[o])) < Cardinality(Running(listener[o]))
            => ~sessions'[o].connected
      ]_vars

\* C32: the socket of a session has a single reader: while a listener
\* thread of the session is in its loop, no operation reads a chunk from
\* the socket.  A download goes from its wait for an offer to the transfer
\* only in a step of its own read loop that has read a chunk; so it never
\* does while a listener of the session is in its loop.
C32_SingleReader ==
    [][\A i \in DOMAIN opPc :
         (opPc[i].phase = "offer_wait" /\ opPc'[i].phase = "transfer")
            => Running(listener[opPc[i].obj]) = {}
      ]_vars

\* C39: if a DCC SEND offer arrives after download_file has sent its
\* request and before response_timeout has passed, download_file goes on to
\* the transfer, whichever thread read the chunk: a download that waits for
\* an offer while one is buffered does not return 'No DCC offer received'.
C39_OfferReadByEitherThread ==
    [][\A i \in DOMAIN opPc :
         (/\ opPc[i].phase = "offer_wait"
          /\ opPc'[i].phase = "idle"
          /\ "_dcc_offers" \in sessions[opPc[i].obj].attrs
          /\ sessions[opPc[i].obj].dcc_offers # <<>>
          /\ sessions[opPc[i].obj].socket # None)
            => ret' # Dict(FALSE, "No DCC offer received")
      ]_vars

\* The object has no socket: disconnect() has dropped it.
Dropped(o) == o \in DOMAIN sessions /\ sessions[o].socket = None

\* No listener thread of the object is in its loop.
NoReader(o) == o \in DOMAIN listener => Running(listener[o]) = {}

\* C31: after disconnect() is called, or after the server has closed the
\* socket, the listener thread leaves its loop (at its next loop test, one
\* read timeout later at most), and the thread that calls disconnect() is
\* neither blocked nor hit by an exception: a caller in no operation can
\* always call disconnect(), the call returns None in the same step
\* without waiting for the listener, a read of no bytes ends the thread
\* that made it, and once the socket is dropped no listener thread of the
\* session stays in its loop for ever.
C31_ReaderExits ==
    /\ [](\A i \in DOMAIN opPc : \A o \in DOMAIN sessions :
            opPc[i].phase = "idle" => ENABLED Disconnect(i, o))
    /\ [][/\ \A i \in DOMAIN opPc : \A o \in DOMAIN sessions :
               Disconnect(i, o) => (ret' = ReturnedNone /\ opPc' = opPc)
          /\ \A o \in DOMAIN listener :
               (Running(listener[o]) # {} /\ ListenerStep(o, "empty"))
                  => Cardinality(Running(listener'[o])) < Cardinality(Running(listener[o]))
         ]_vars
    /\ \A o \in 1..MaxSessions :
         (Dropped(o) /\ ~NoReader(o)) ~> NoReader(o)

\* disconnect() was called on a connected session and its listener thread
\* has left the loop since.
C31_Witness ==
    /\ Dropped(1)
    /\ ~sessions[1].connected
    /\ listener[1] = <<"ended">>
    /\ conn[1].pc = "returned_true"

\* C34: connect() succeeds whenever registration has succeeded, also when
\* neither a JOIN confirmation nor a 366 arrives within the join wait: the
\* wait can always end (confirmed or after its 10 s), and the step that
\* ends it without a read error returns True and leaves connected = True and
\* joined_channel = True in the fields and in the status and one more
\* listener thread, in its loop.
C34_UnconfirmedJoinSucceeds ==
    /\ [](\A o \in DOMAIN conn :
             conn[o].pc = "join_wait" => ENABLED ConnSucceed(o))
    /\ [][\A o \in DOMAIN conn :
            /\ (conn[o].pc = "join_wait" /\ conn'[o].pc # "join_wait")
                  => \/ conn'[o].pc = "returned_true"
                     \/ /\ ~conn[o].join_confirmed
                        /\ \E r \in {"reset"} : JoinRead(o, r)
            /\ (conn[o].pc = "join_wait" /\ conn'[o].pc = "returned_true")
                  => /\ sessions'[o].connected
                     /\ sessions'[o].joined_channel
                     /\ sessions'[o].status.connected
                     /\ sessions'[o].status.joined_channel
                     /\ listener'[o] = Append(listener[o], "running")
         ]_vars

\* connect() has returned True after a join wait in which no confirmation
\* arrived: the warning was logged, the session is connected and joined in
\* fields and status, and its listener runs.
C34_Witness ==
    /\ conn[1].pc = "returned_true"
    /\ ~conn[1].join_confirmed
    /\ sessions[1].connected
    /\ sessions[1].joined_channel
    /\ sessions[1].status.connected
    /\ sessions[1].status.joined_channel
    /\ listener[1] = <<"running">>

\* The lines and the offers the object has buffered (none without the
\* attribute).
Lines(s) == IF "_search_results" \in s.attrs THEN s.search_results ELSE <<>>
Offers(s) == IF "_dcc_offers" \in s.attrs THEN s.dcc_offers ELSE <<>>

\* C35: search_books empties the buffer of lines and the buffer of offers,
\* and download_file the buffer of offers, before it sends its command; the
\* records a search returns are parsed only from lines buffered after that
\* search's clear, and a download never uses an offer buffered before its
\* own clear.  Step by step: the step in which an operation passes the rate
\* limiter leaves its buffers empty, whether or not the send succeeds; a
\* buffer grows only at its end and only in a step that reads a chunk; a
\* search returns no more records than lines stand in the buffer at that
\* moment; and a download goes to the transfer only with an offer in the
\* buffer.
C35_BuffersClearedPerOperation ==
    [][/\ \A i \in DOMAIN opPc :
            LET p == opPc[i]
                q == opPc'[i]
            IN /\ (p.phase = "rate_limit" /\ q.phase # "rate_limit")
                    => /\ Offers(sessions'[p.obj]) = <<>>
                       /\ "_dcc_offers" \in sessions'[p.obj].attrs
                       /\ p.op = "search_books"
                            => /\ Lines(sessions'[p.obj]) = <<>>
                               /\ "_search_results" \in sessions'[p.obj].attrs
               /\ (p.phase = "collecting" /\ q.phase = "counting")
                    => /\ q.result.count <= Len(Lines(sessions[p.obj]))
                       /\ Lines(sessions[p.obj]) # <<>>
               /\ (p.phase = "collecting" /\ q.phase = "idle")
                    => /\ ret'.count = 0
                       /\ Lines(sessions[p.obj]) = <<>>
               /\ (p.phase = "offer_wait" /\ q.phase = "transfer")
                    => Offers(sessions'[p.obj]) # <<>>
       /\ \A o \in DOMAIN sessions :
            /\ Len(Lines(sessions'[o])) > Len(Lines(sessions[o]))
                 => /\ Lines(sessions'[o]) = Append(Lines(sessions[o]), "line")
                    /\ \/ ListenerStep(o, "line")
                       \/ \E i \in DOMAIN opPc : DownloadRecv(i, "line")
            /\ Len(Offers(sessions'[o])) > Len(Offers(sessions[o]))
                 => /\ Offers(sessions'[o]) = Append(Offers(sessions[o]), "offer")
                    /\ \/ ListenerStep(o, "offer")
                       \/ \E i \in DOMAIN opPc : DownloadRecv(i, "offer")
      ]_vars

\* A second search on the session has parsed a record: the line it comes
\* from was buffered after that search's clear, which removed the line the
\* first search had counted.
C35_Witness ==
    /\ opPc[1].phase = "counting"
    /\ opPc[1].op = "search_books"
    /\ opPc[1].seen = 1
    /\ opPc[1].result.count = 1
    /\ Len(Lines(sessions[1])) = 1

\* C33: search_books returns after at most the 20-second collection window
\* (20 polls of one second), or earlier as soon as max_results raw lines are
\* buffered, and never returns more than max_results records: a poll
\* starts only while less than 20 s have passed, each takes a second at
\* least, so there are 20 at most, within 20 s when each sleep takes its
\* second and no more; the poll that finds max_results lines
\* buffered is the last, and no other poll within the window is; and the
\* list returned has max_results records at most.
C33_WindowBounded ==
    [][/\ colPc' = "sleep" => colElapsed' < search_timeout
       /\ colPolls' <= colElapsed'
       /\ colPolls' <= search_timeout
       /\ colPolls' = colElapsed' => colElapsed' <= search_timeout
       /\ colPolls' > colPolls =>
            IF colLines >= colMax THEN colPc' = "parse" ELSE colPc' = "test"
       /\ (colPc = "test" /\ colPc' = "parse") => colElapsed >= search_timeout
       /\ colPc' = "done" => colReturned' <= colMax
      ]_vars

\* A search with max_results = 2 has returned 2 records after 3 polls, a
\* third line having come in before the poll that found the buffer full.
C33_Witness ==
    /\ colPc = "done"
    /\ colMax = 2
    /\ colLines = 3
    /\ colPolls = 3
    /\ colReturned = 2

\* C36: each server PING is answered with one PONG that carries the PING's
\* token, and nothing else is written: for a chunk, what goes to the
\* socket is one PONG line for each line of the chunk that is a PING
\* command, in their order, and no line that is no PING command (a channel
\* message with the text PING in it, say).
C36_PongOnlyForPing ==
    pongPc = "done" =>
        LET pings == SelectSeq(pongLines, LAMBDA line : StartsWith(line, Text_PING))
            bytes == IF pongWritten = <<>> THEN <<>> ELSE pongWritten[1]
        IN bytes = ChunkOf([k \in DOMAIN pings |->
                                 Text_PONG \o SubSeq(pings[k], Len(Text_PING) + 1,
                                                     Len(pings[k]))])

====
